---- MODULE Spec2Model ----
(***************************************************************************)
(* Model of the DEXON governance contract, core/vm/oracle_contracts.go.    *)
(*                                                                         *)
(* GovernanceState is a view over a flat store of 32-byte words.  The      *)
(* registry part of the model keeps one field per storage variable of the  *)
(* contract (nodes, nodesOffsetByAddress, delegators, ...), each holding   *)
(* exactly what the accessors of the source read and write there: the      *)
(* reverse indices hold offset+1 with 0 for "absent", a popped array slot  *)
(* is zeroed, and a big.Int is stored through its absolute value.  The     *)
(* byte-string part of the model (readBytes / writeBytes / eraseBytes)     *)
(* keeps the words themselves, as sequences of 32 bytes.                   *)
(*                                                                         *)
(* A handler that returns an error is rolled back by the host: the state   *)
(* is left as it was and only the outcome of the call is recorded.         *)
(***************************************************************************)
EXTENDS Integers, Sequences, FiniteSets, TLC

VARIABLES
    state,      \* GovernanceState: the storage variables of the contract
    balance,    \* the host's balance of GovernanceContractAddress
    now,        \* evm.Time, the block time the host supplies
    calls,      \* number of successful calls so far (bounds the exploration)
    last,       \* the last successful call: handler, caller, node address
    store,      \* byte-string part: the raw words, location -> 32 bytes
    held,       \* byte-string part: the bytes last written at BytesLoc
    got,        \* byte-string part: what the last readBytes returned
    dkg,        \* GovernanceState: owner, configuration, DKG and fine fields
    evm,        \* the host: evm.Round, the block number, the committed states
    hist        \* history: the round each stored DKG item was accepted in

vars == <<state, balance, now, calls, last, store, held, got, dkg, evm, hist>>
regVars == <<state, balance, now, calls, dkg, evm, hist>>
bytesVars == <<store, held, got>>

(***************************************************************************)
(* Bounds of the exploration.                                              *)
(***************************************************************************)
NumAddrs == 3       \* addresses that send calls: 1..NumAddrs
MaxValue == 2       \* the value attached to a call is in 0..MaxValue
MaxTime == 3        \* the block time runs from 1 to MaxTime
MaxCalls == 5       \* successful calls explored per behaviour
MaxRound == 2       \* evm.Round runs from 0 to MaxRound
MaxResets == 1      \* resets counted per round
MaxRoundItems == 1  \* master public keys, and complaints, kept over the rounds
MaxSnapshotRound == 3   \* evm.Round runs from 0 to this where snapshots are followed
MaxGas == 2         \* contract.Gas on entry of a call is in 0..MaxGas
MaxKeys == 4        \* master public keys stored where their order is followed

Addrs == 1..NumAddrs
Accounts == 1..(NumAddrs + 1)   \* with one account that never stakes
AllAddrs == 0..(NumAddrs + 1)   \* with the zero address
Offsets == 0..NumAddrs          \* array slots the model keeps
Values == 0..MaxValue

\* A public key is modelled by the node key address it unmarshals to; 0 is
\* a byte string that crypto.UnmarshalPubkey rejects.  A caller stakes such
\* a string or its own key.
PublicKeys(c) == {0, c}

\* A text field is modelled by its length in bytes.  The texts of a stake
\* call, <<name, email, location, url>>: all within their bounds, or one of
\* them at its bound.
StakeTexts ==
    {<<31, 31, 31, 127>>, <<32, 31, 31, 127>>, <<31, 32, 31, 127>>,
     <<31, 31, 32, 127>>, <<31, 31, 31, 128>>}

\* The lockupPeriod of the genesis configuration.
GenesisLockupPeriod == 1

(***************************************************************************)
(* GovernanceState: storage accessors.                                     *)
(***************************************************************************)

\* common.BigToHash keeps big.Int.Bytes(), the bytes of the absolute value.
BigToHash(x) == IF x < 0 THEN -x ELSE x

ZeroNode ==
    [Owner |-> 0, PublicKey |-> 0, Staked |-> 0, Fined |-> 0,
     Name |-> 0, Email |-> 0, Location |-> 0, Url |-> 0]
ZeroDelegator == [Owner |-> 0, Value |-> 0, UndelegatedAt |-> 0]

TotalStaked(s) == s.totalStaked
IncTotalStaked(s, amount) ==
    [s EXCEPT !.totalStaked = BigToHash(TotalStaked(s) + amount)]
DecTotalStaked(s, amount) ==
    [s EXCEPT !.totalStaked = BigToHash(TotalStaked(s) - amount)]

LenNodes(s) == s.lenNodes
\* A slot outside the window the model keeps was never written: it reads zero.
Node(s, index) == IF index \in Offsets THEN s.nodes[index] ELSE ZeroNode
UpdateNode(s, index, n) ==
    IF index \in Offsets
    THEN [s EXCEPT !.nodes[index] =
              [n EXCEPT !.Staked = BigToHash(n.Staked), !.Fined = BigToHash(n.Fined)]]
    ELSE s
PushNode(s, n) ==
    LET arrayLength == LenNodes(s)
    IN  UpdateNode([s EXCEPT !.lenNodes = arrayLength + 1], arrayLength, n)
PopLastNode(s) ==
    LET newArrayLength == LenNodes(s) - 1
    IN  UpdateNode([s EXCEPT !.lenNodes = BigToHash(newArrayLength)],
                   newArrayLength, ZeroNode)

NodesOffsetByAddress(s, addr) == s.nodesOffsetByAddress[addr] - 1
PutNodesOffsetByAddress(s, addr, offset) ==
    [s EXCEPT !.nodesOffsetByAddress[addr] = BigToHash(offset + 1)]
DeleteNodesOffsetByAddress(s, addr) ==
    [s EXCEPT !.nodesOffsetByAddress[addr] = 0]

NodesOffsetByNodeKeyAddress(s, addr) == s.nodesOffsetByNodeKeyAddress[addr] - 1
PutNodesOffsetByNodeKeyAddress(s, addr, offset) ==
    [s EXCEPT !.nodesOffsetByNodeKeyAddress[addr] = BigToHash(offset + 1)]
DeleteNodesOffsetByNodeKeyAddress(s, addr) ==
    [s EXCEPT !.nodesOffsetByNodeKeyAddress[addr] = 0]

\* publicKeyToNodeKeyAddress: the error of crypto.UnmarshalPubkey, or the address.
PublicKeyValid(pk) == pk # 0
publicKeyToNodeKeyAddress(pk) == pk

\* PutNodeOffsets: [ok |-> FALSE] is the error return, nothing written.
PutNodeOffsets(s, n, offset) ==
    IF ~PublicKeyValid(n.PublicKey)
    THEN [ok |-> FALSE, st |-> s]
    ELSE [ok |-> TRUE,
          st |-> PutNodesOffsetByAddress(
                     PutNodesOffsetByNodeKeyAddress(
                         s, publicKeyToNodeKeyAddress(n.PublicKey), offset),
                     n.Owner, offset)]

LenDelegators(s, nodeAddr) == s.lenDelegators[nodeAddr]
Delegator(s, nodeAddr, offset) ==
    IF offset \in Offsets THEN s.delegators[nodeAddr][offset] ELSE ZeroDelegator
UpdateDelegator(s, nodeAddr, offset, d) ==
    IF offset \in Offsets
    THEN [s EXCEPT !.delegators[nodeAddr][offset] =
              [d EXCEPT !.Value = BigToHash(d.Value),
                        !.UndelegatedAt = BigToHash(d.UndelegatedAt)]]
    ELSE s
PushDelegator(s, nodeAddr, d) ==
    LET arrayLength == LenDelegators(s, nodeAddr)
    IN  UpdateDelegator([s EXCEPT !.lenDelegators[nodeAddr] = arrayLength + 1],
                        nodeAddr, arrayLength, d)
PopLastDelegator(s, nodeAddr) ==
    LET newArrayLength == LenDelegators(s, nodeAddr) - 1
    IN  UpdateDelegator(
            [s EXCEPT !.lenDelegators[nodeAddr] = BigToHash(newArrayLength)],
            nodeAddr, newArrayLength, ZeroDelegator)

DelegatorsOffset(s, nodeAddr, delegatorAddr) ==
    s.delegatorsOffset[nodeAddr][delegatorAddr] - 1
PutDelegatorOffset(s, nodeAddr, delegatorAddr, offset) ==
    [s EXCEPT !.delegatorsOffset[nodeAddr][delegatorAddr] = BigToHash(offset + 1)]
DeleteDelegatorsOffset(s, nodeAddr, delegatorAddr) ==
    [s EXCEPT !.delegatorsOffset[nodeAddr][delegatorAddr] = 0]

LockupPeriod(s) == s.lockupPeriod

(***************************************************************************)
(* The byte-string layer.  A word is a sequence of 32 bytes; a location    *)
(* is a path: <<n>> is slot n, and getSlotLoc(loc) + i, word i of the data *)
(* area keccak256(loc) opens, is loc with i appended (keccak256 is taken   *)
(* to be collision free, so distinct paths are distinct locations).        *)
(***************************************************************************)
WordSize == 32
ZeroWord == [i \in 1..WordSize |-> 0]
EmptyStore == [l \in {} |-> ZeroWord]

getState(st, loc) == IF loc \in DOMAIN st THEN st[loc] ELSE ZeroWord
setState(st, loc, val) == (loc :> val) @@ st
DataLoc(loc, i) == Append(loc, i)

RECURSIVE Zeros(_)
Zeros(n) == IF n <= 0 THEN <<>> ELSE <<0>> \o Zeros(n - 1)

RECURSIVE StripLeadingZeros(_)
StripLeadingZeros(b) ==
    IF b # <<>> /\ Head(b) = 0 THEN StripLeadingZeros(Tail(b)) ELSE b

RECURSIVE BytesToInt(_)
\* new(big.Int).SetBytes: the big-endian value of the bytes.
BytesToInt(b) ==
    IF b = <<>> THEN 0 ELSE 256 * BytesToInt(SubSeq(b, 1, Len(b) - 1)) + b[Len(b)]

\* big.Int.Bytes(): the big-endian bytes of the value, without leading zeros.
BigBytes(word) == StripLeadingZeros(word)
\* getStateBigInt: the value of the word (its leading zero bytes add nothing).
getStateBigInt(st, loc) == BytesToInt(StripLeadingZeros(getState(st, loc)))
\* common.BytesToHash on at most 32 bytes: left-padded with zeros.
BytesToHash(b) == Zeros(WordSize - Len(b)) \o b
\* common.BigToHash for 0 <= n < 2^24.
IntToWord(n) ==
    Zeros(WordSize - 3) \o <<(n \div 65536) % 256, (n \div 256) % 256, n % 256>>
setStateBigInt(st, loc, n) == setState(st, loc, IntToWord(n))

\* length/32 rounded up: the number of data words of a long string.
Chunks(length) == (length \div WordSize) + (IF length % WordSize > 0 THEN 1 ELSE 0)

RECURSIVE readChunks(_, _, _)
\* the loop of readBytes: words 0..chunks-1 of the data area, concatenated.
readChunks(st, loc, chunks) ==
    IF chunks <= 0 THEN <<>>
    ELSE readChunks(st, loc, chunks - 1) \o getState(st, DataLoc(loc, chunks - 1))

\* readBytes, short form: the first length bytes of rawLength.Bytes().  A
\* slice longer than that byte slice is a Go run-time panic.
readShort(word, length) ==
    IF length > Len(BigBytes(word))
    THEN [panic |-> TRUE, data |-> <<>>]
    ELSE [panic |-> FALSE, data |-> SubSeq(BigBytes(word), 1, length)]

readBytes(st, loc) ==
    LET word == getState(st, loc)
        lengthByte == word[WordSize]
        length == (getStateBigInt(st, loc) - 1) \div 2
    IN  IF lengthByte % 2 = 0
        THEN readShort(word, lengthByte \div 2)
        ELSE [panic |-> FALSE,
              data |-> SubSeq(readChunks(st, loc, Chunks(length)), 1, length)]

RECURSIVE writeChunks(_, _, _, _)
\* the loop of writeBytes: chunk i-1 of data, right-padded, at data word i-1.
writeChunks(st, loc, data, i) ==
    IF i <= 0 THEN st
    ELSE LET maxLoc == IF i * WordSize > Len(data) THEN Len(data) ELSE i * WordSize
             data2 == SubSeq(data, (i - 1) * WordSize + 1, maxLoc)
         IN  setState(writeChunks(st, loc, data, i - 1), DataLoc(loc, i - 1),
                      data2 \o Zeros(WordSize - Len(data2)))

writeBytes(st, loc, data) ==
    LET length == Len(data)
    IN  IF length = 0 THEN setState(st, loc, ZeroWord)
        ELSE IF length < 32
        THEN setState(st, loc,
                 BytesToHash(data \o Zeros(31 - length) \o <<(length * 2) % 256>>))
        ELSE writeChunks(setStateBigInt(st, loc, length * 2 + 1), loc, data,
                         Chunks(length))

\* eraseBytes, long form: the data words are filled with zeros, then the slot.
eraseLongSlotOnly(st, loc, length) == setStateBigInt(st, loc, 0)
eraseLong(st, loc, length) ==
    setStateBigInt(writeBytes(st, loc, Zeros(length)), loc, 0)

eraseBytes(st, loc) ==
    LET lengthByte == getState(st, loc)[WordSize]
        length == (getStateBigInt(st, loc) - 1) \div 2
    IN  IF lengthByte % 2 = 0 THEN setStateBigInt(st, loc, 0)
        ELSE eraseLong(st, loc, length)

(***************************************************************************)
(* 1-D arrays of byte strings: the length at loc, element i as a byte      *)
(* string at getSlotLoc(loc) + i.  read1DByteArray returns [panic, data],  *)
(* a panic of one readBytes being a panic of the whole read.               *)
(***************************************************************************)
RECURSIVE read1DLoop(_, _, _)
\* the loop of read1DByteArray: elements 0..n-1, in order.
read1DLoop(st, loc, n) ==
    IF n <= 0 THEN [panic |-> FALSE, data |-> <<>>]
    ELSE LET before == read1DLoop(st, loc, n - 1)
             element == readBytes(st, DataLoc(loc, n - 1))
         IN  IF before.panic \/ element.panic THEN [panic |-> TRUE, data |-> <<>>]
             ELSE [panic |-> FALSE, data |-> Append(before.data, element.data)]

read1DByteArray(st, loc) == read1DLoop(st, loc, getStateBigInt(st, loc))

appendTo1DByteArray(st, loc, data) ==
    LET arrayLength == getStateBigInt(st, loc)
    IN  writeBytes(setStateBigInt(st, loc, arrayLength + 1),
                   DataLoc(loc, arrayLength), data)

RECURSIVE erase1DLoop(_, _, _)
\* the loop of erase1DByteArray: eraseBytes on elements 0..n-1.
erase1DLoop(st, loc, n) ==
    IF n <= 0 THEN st
    ELSE eraseBytes(erase1DLoop(st, loc, n - 1), DataLoc(loc, n - 1))

erase1DByteArrayLengthOnly(st, loc) == setStateBigInt(st, loc, 0)
erase1DByteArray(st, loc) ==
    setStateBigInt(erase1DLoop(st, loc, getStateBigInt(st, loc)), loc, 0)


(***************************************************************************)
(* GovernanceContract: the handlers.  Each returns [st, out, paid]: the    *)
(* state it leaves, its outcome ("ok", "reverted" for errExecutionReverted *)
(* with the gas kept, "penalized" for penalize(), "panic" for a Go panic)  *)
(* and the transfer it made out of the contract, as [to, amount].  Unless  *)
(* out = "ok" the host discards st and the transfer.                       *)
(***************************************************************************)
NoTransfer == [to |-> 0, amount |-> 0]
Ok(s, paid) == [st |-> s, out |-> "ok", paid |-> paid]
Fail(s, out) == [st |-> s, out |-> out, paid |-> NoTransfer]

\* g.transfer: evm.CanTransfer on the balance of the contract.
CanTransfer(bal, amount) == bal >= amount

\* delegate without the check for an existing row of the caller.
delegateAgain(s, caller, value, nodeAddr) ==
    LET offset == NodesOffsetByAddress(s, nodeAddr)
        node == Node(s, offset)
        s1 == UpdateNode(s, offset, [node EXCEPT !.Staked = node.Staked + value])
        s2 == IncTotalStaked(s1, value)
        newOffset == LenDelegators(s2, nodeAddr)
        s3 == PushDelegator(s2, nodeAddr,
                  [Owner |-> caller, Value |-> value, UndelegatedAt |-> 0])
        s4 == PutDelegatorOffset(s3, nodeAddr, caller, newOffset)
    IN  IF offset < 0 THEN Fail(s, "reverted")
        ELSE IF value = 0 THEN Fail(s, "reverted")
        ELSE Ok(s4, NoTransfer)
delegate(s, caller, value, nodeAddr) ==
    LET offset == NodesOffsetByAddress(s, nodeAddr)
        delegatorOffset == DelegatorsOffset(s, nodeAddr, caller)
        node == Node(s, offset)
        s1 == UpdateNode(s, offset, [node EXCEPT !.Staked = node.Staked + value])
        s2 == IncTotalStaked(s1, value)
        newOffset == LenDelegators(s2, nodeAddr)
        s3 == PushDelegator(s2, nodeAddr,
                  [Owner |-> caller, Value |-> value, UndelegatedAt |-> 0])
        s4 == PutDelegatorOffset(s3, nodeAddr, caller, newOffset)
    IN  IF offset < 0 THEN Fail(s, "reverted")
        ELSE IF value = 0 THEN Fail(s, "reverted")
        ELSE IF delegatorOffset >= 0 THEN Fail(s, "reverted")
        ELSE Ok(s4, NoTransfer)

\* stake without the bound on the url.
stakeAnyUrl(s, caller, value, publicKey, name, email, location, url) ==
    LET offset == NodesOffsetByAddress(s, caller)
        newOffset == LenNodes(s)
        node == [Owner |-> caller, PublicKey |-> publicKey, Staked |-> 0,
                 Fined |-> 0, Name |-> name, Email |-> email,
                 Location |-> location, Url |-> url]
        s1 == PushNode(s, node)
        put == PutNodeOffsets(s1, node, newOffset)
    IN  IF name >= 32 \/ email >= 32 \/ location >= 32
        THEN Fail(s, "penalized")
        ELSE IF offset >= 0 THEN Fail(s, "reverted")
        ELSE IF ~put.ok THEN Fail(s, "penalized")
        ELSE IF value > 0 THEN delegate(put.st, caller, value, caller)
        ELSE Ok(put.st, NoTransfer)
stake(s, caller, value, publicKey, name, email, location, url) ==
    LET offset == NodesOffsetByAddress(s, caller)
        newOffset == LenNodes(s)
        node == [Owner |-> caller, PublicKey |-> publicKey, Staked |-> 0,
                 Fined |-> 0, Name |-> name, Email |-> email,
                 Location |-> location, Url |-> url]
        s1 == PushNode(s, node)
        put == PutNodeOffsets(s1, node, newOffset)
    IN  IF name >= 32 \/ email >= 32 \/ location >= 32 \/ url >= 128
        THEN Fail(s, "penalized")
        ELSE IF offset >= 0 THEN Fail(s, "reverted")
        ELSE IF ~put.ok THEN Fail(s, "penalized")
        ELSE IF value > 0 THEN delegate(put.st, caller, value, caller)
        ELSE Ok(put.st, NoTransfer)

undelegateHelper(s, nodeAddr, caller, time) ==
    LET nodeOffset == NodesOffsetByAddress(s, nodeAddr)
        offset == DelegatorsOffset(s, nodeAddr, caller)
        node == Node(s, nodeOffset)
        delegator == Delegator(s, nodeAddr, offset)
        s1 == UpdateDelegator(s, nodeAddr, offset,
                  [delegator EXCEPT !.UndelegatedAt = time])
        s2 == UpdateNode(s1, nodeOffset,
                  [node EXCEPT !.Staked = node.Staked - delegator.Value])
        s3 == DecTotalStaked(s2, delegator.Value)
    IN  IF nodeOffset < 0 THEN Fail(s, "reverted")
        ELSE IF offset < 0 THEN Fail(s, "reverted")
        ELSE IF node.Fined > 0 THEN Fail(s, "reverted")
        ELSE IF delegator.UndelegatedAt # 0 THEN Fail(s, "reverted")
        ELSE Ok(s3, NoTransfer)

undelegate(s, caller, nodeAddr, time) == undelegateHelper(s, nodeAddr, caller, time)

\* withdraw, second half: the node is removed once its delegators are gone.
\* offset is the delegator offset of the caller, as in the source.
withdrawRemoveNode(s, nodeAddr, offset) ==
    LET lastIndex == LenNodes(s) - 1
        lastNode == Node(s, lastIndex)
        moved == PutNodeOffsets(UpdateNode(s, offset, lastNode), lastNode, offset)
        s1 == IF offset # lastIndex THEN moved.st ELSE s
    IN  IF offset # lastIndex /\ ~moved.ok THEN [ok |-> FALSE, st |-> s]
        ELSE [ok |-> TRUE, st |-> PopLastNode(DeleteNodesOffsetByAddress(s1, nodeAddr))]

\* withdraw, the lockup check: the call is penalized until the block time
\* has passed UndelegatedAt + lockupPeriod.
withdrawLockedAtBoundaryOnly(s, delegator, time) ==
    time < delegator.UndelegatedAt + LockupPeriod(s)
withdrawLocked(s, delegator, time) ==
    time <= delegator.UndelegatedAt + LockupPeriod(s)

\* withdraw, first half: the row of the caller at offset is swap-deleted.
withdrawRemoveDelegatorStaleIndex(s, nodeAddr, caller, offset) ==
    LET lastIndex == LenDelegators(s, nodeAddr) - 1
        lastRow == Delegator(s, nodeAddr, lastIndex)
        s1 == IF offset # lastIndex
              THEN UpdateDelegator(s, nodeAddr, offset, lastRow)
              ELSE s
    IN  PopLastDelegator(DeleteDelegatorsOffset(s1, nodeAddr, caller), nodeAddr)
withdrawRemoveDelegator(s, nodeAddr, caller, offset) ==
    LET lastIndex == LenDelegators(s, nodeAddr) - 1
        lastRow == Delegator(s, nodeAddr, lastIndex)
        s1 == IF offset # lastIndex
              THEN PutDelegatorOffset(
                       UpdateDelegator(s, nodeAddr, offset, lastRow),
                       nodeAddr, lastRow.Owner, offset)
              ELSE s
    IN  PopLastDelegator(DeleteDelegatorsOffset(s1, nodeAddr, caller), nodeAddr)

withdrawPaysStaked(s, bal, caller, nodeAddr, time) ==
    LET nodeOffset == NodesOffsetByAddress(s, nodeAddr)
        offset == DelegatorsOffset(s, nodeAddr, caller)
        delegator == Delegator(s, nodeAddr, offset)
        s2 == withdrawRemoveDelegator(s, nodeAddr, caller, offset)
        removed == withdrawRemoveNode(s2, nodeAddr, offset)
        paid == [to |-> delegator.Owner, amount |-> Node(s, nodeOffset).Staked]
    IN  IF nodeOffset < 0 THEN Fail(s, "reverted")
        ELSE IF offset < 0 THEN Fail(s, "reverted")
        ELSE IF delegator.UndelegatedAt = 0 THEN Fail(s, "penalized")
        ELSE IF withdrawLocked(s, delegator, time) THEN Fail(s, "penalized")
        ELSE IF ~CanTransfer(bal, Node(s, nodeOffset).Staked) THEN Fail(s, "reverted")
        ELSE IF LenDelegators(s2, nodeAddr) # 0 THEN Ok(s2, paid)
        ELSE IF ~removed.ok THEN Fail(s, "panic")
        ELSE Ok(removed.st, paid)

withdraw(s, bal, caller, nodeAddr, time) ==
    LET nodeOffset == NodesOffsetByAddress(s, nodeAddr)
        offset == DelegatorsOffset(s, nodeAddr, caller)
        delegator == Delegator(s, nodeAddr, offset)
        s2 == withdrawRemoveDelegator(s, nodeAddr, caller, offset)
        removed == withdrawRemoveNode(s2, nodeAddr, offset)
        paid == [to |-> delegator.Owner, amount |-> delegator.Value]
    IN  IF nodeOffset < 0 THEN Fail(s, "reverted")
        ELSE IF offset < 0 THEN Fail(s, "reverted")
        ELSE IF delegator.UndelegatedAt = 0 THEN Fail(s, "penalized")
        ELSE IF withdrawLocked(s, delegator, time) THEN Fail(s, "penalized")
        ELSE IF ~CanTransfer(bal, delegator.Value) THEN Fail(s, "reverted")
        ELSE IF LenDelegators(s2, nodeAddr) # 0 THEN Ok(s2, paid)
        ELSE IF ~removed.ok THEN Fail(s, "panic")
        ELSE Ok(removed.st, paid)

RECURSIVE unstakeLoop(_, _, _, _)
unstakeLoop(s, caller, i, time) ==
    IF i < 0 THEN Ok(s, NoTransfer)
    ELSE LET delegator == Delegator(s, caller, i)
             r == undelegateHelper(s, caller, delegator.Owner, time)
         IN  IF r.out # "ok" THEN r ELSE unstakeLoop(r.st, caller, i - 1, time)

unstake(s, caller, time) ==
    LET offset == NodesOffsetByAddress(s, caller)
        node == Node(s, offset)
    IN  IF offset < 0 THEN Fail(s, "reverted")
        ELSE IF node.Fined > 0 THEN Fail(s, "reverted")
        ELSE unstakeLoop(s, caller, LenDelegators(s, caller) - 1, time)

\* payFine without the bound on the attached value.
payFineOverpay(s, caller, value, nodeAddr) ==
    LET nodeOffset == NodesOffsetByAddress(s, nodeAddr)
        offset == DelegatorsOffset(s, nodeAddr, caller)
        node == Node(s, nodeOffset)
    IN  IF nodeOffset < 0 THEN Fail(s, "reverted")
        ELSE IF offset < 0 THEN Fail(s, "reverted")
        ELSE IF node.Fined <= 0 THEN Fail(s, "reverted")
        ELSE Ok(UpdateNode(s, nodeOffset,
                    [node EXCEPT !.Fined = node.Fined - value]), NoTransfer)
payFine(s, caller, value, nodeAddr) ==
    LET nodeOffset == NodesOffsetByAddress(s, nodeAddr)
        offset == DelegatorsOffset(s, nodeAddr, caller)
        node == Node(s, nodeOffset)
    IN  IF nodeOffset < 0 THEN Fail(s, "reverted")
        ELSE IF offset < 0 THEN Fail(s, "reverted")
        ELSE IF node.Fined <= 0 \/ node.Fined < value THEN Fail(s, "reverted")
        ELSE Ok(UpdateNode(s, nodeOffset,
                    [node EXCEPT !.Fined = node.Fined - value]), NoTransfer)

(***************************************************************************)
(* GovernanceState: owner, configuration, DKG and fine fields.  A node ID  *)
(* is modelled by idToAddress of it, the node key address.  A payload is   *)
(* modelled by what the decoder and the verifiers, which the contract      *)
(* calls as opaque functions, answer about it.                             *)
(***************************************************************************)
Owner(d) == d.owner
MinStake(d) == d.minStake
DKGSetSize(d) == d.dkgSetSize
\* fineValues[index], counted from 0; a slot past the end reads zero.
FineValue(d, index) ==
    IF index + 1 \in DOMAIN d.fineValues THEN d.fineValues[index + 1] ELSE 0
\* crypto.Keccak256Hash: the hash is modelled by the bytes it is the hash
\* of behind a marker, so that different inputs have different hashes and
\* no hash equals its input.
Keccak256Hash(bytes) == <<0>> \o bytes
\* the zero hash of an unwritten slot.
ZeroHash == <<>>
SetOwner(d, newOwner) == [d EXCEPT !.owner = newOwner]
\* roundHeight[round]; a slot past the end reads zero.
RoundHeight(d, round) ==
    IF round + 1 \in DOMAIN d.roundHeight THEN d.roundHeight[round + 1] ELSE 0
LenRoundHeight(d) == Len(d.roundHeight)
PushRoundHeight(d, height) == [d EXCEPT !.roundHeight = Append(@, height)]
TotalSupply(d) == d.totalSupply
IncTotalSupply(d, amount) == [d EXCEPT !.totalSupply = @ + amount]
NextHalvingSupply(d) == d.nextHalvingSupply
CRSRound(d) == d.crsRound
SetCRSRound(d, round) == [d EXCEPT !.crsRound = round]
CRS(d) == d.crs
SetCRS(d, crs) == [d EXCEPT !.crs = crs]
DKGRound(d) == d.dkgRound
RoundLength(d) == d.roundLength
\* dkgResetCount[round]
DKGResetCount(d, round) == d.dkgResetCount[round]
IncDKGResetCount(d, round) == [d EXCEPT !.dkgResetCount[round] = @ + 1]
SetDKGRound(d, round) == [d EXCEPT !.dkgRound = round]

DKGMasterPublicKeys(d) == d.dkgMasterPublicKeys
PushDKGMasterPublicKey(d, mpk) ==
    [d EXCEPT !.dkgMasterPublicKeys = Append(@, mpk)]
ClearDKGMasterPublicKeys(d) == [d EXCEPT !.dkgMasterPublicKeys = <<>>]
\* the loop of UniqueDKGMasterPublicKeys over the stored keys: a key whose
\* proposer is in existence is skipped.
RECURSIVE UniqueLoop(_, _, _)
UniqueLoop(mpks, existence, dkgMasterPKs) ==
    IF mpks = <<>> THEN dkgMasterPKs
    ELSE LET x == Head(mpks)
         IN  IF x.ProposerID \in existence
             THEN UniqueLoop(Tail(mpks), existence, dkgMasterPKs)
             ELSE UniqueLoop(Tail(mpks), existence \cup {x.ProposerID},
                             Append(dkgMasterPKs, x))
UniqueDKGMasterPublicKeysAll(d) == DKGMasterPublicKeys(d)
UniqueDKGMasterPublicKeys(d) == UniqueLoop(DKGMasterPublicKeys(d), {}, <<>>)
\* the loop of GetDKGMasterPublicKeyByProposerID: the first stored key that
\* carries the proposer ID, or the error "not found".
RECURSIVE GetLoop(_, _)
GetLoop(mpks, proposerID) ==
    IF mpks = <<>> THEN [mpk |-> <<>>, err |-> "not found"]
    ELSE IF Head(mpks).ProposerID = proposerID THEN [mpk |-> Head(mpks), err |-> "nil"]
    ELSE GetLoop(Tail(mpks), proposerID)
GetDKGMasterPublicKeyByProposerID(d, proposerID) ==
    GetLoop(DKGMasterPublicKeys(d), proposerID)

DKGComplaints(d) == d.dkgComplaints
PushDKGComplaint(d, complaint) == [d EXCEPT !.dkgComplaints = Append(@, complaint)]
ClearDKGComplaints(d) == [d EXCEPT !.dkgComplaints = <<>>]

DKGMPKReady(d, addr) == d.dkgReady[addr]
PutDKGMPKReady(d, addr, ready) == [d EXCEPT !.dkgReady[addr] = ready]
ClearDKGMPKReady(d, dkgSet) ==
    [d EXCEPT !.dkgReady = [a \in AllAddrs |-> IF a \in dkgSet THEN FALSE ELSE @[a]]]
DKGMPKReadysCount(d) == d.dkgReadysCount
IncDKGMPKReadysCount(d) == [d EXCEPT !.dkgReadysCount = @ + 1]
ResetDKGMPKReadysCount(d) == [d EXCEPT !.dkgReadysCount = 0]

DKGFinalized(d, addr) == d.dkgFinalized[addr]
PutDKGFinalized(d, addr, finalized) == [d EXCEPT !.dkgFinalized[addr] = finalized]
ClearDKGFinalized(d, dkgSet) ==
    [d EXCEPT !.dkgFinalized = [a \in AllAddrs |-> IF a \in dkgSet THEN FALSE ELSE @[a]]]
DKGFinalizedsCount(d) == d.dkgFinalizedsCount
IncDKGFinalizedsCount(d) == [d EXCEPT !.dkgFinalizedsCount = @ + 1]
ResetDKGFinalizedsCount(d) == [d EXCEPT !.dkgFinalizedsCount = 0]

FineRecords(d, recordHash) == recordHash \in d.finedRecords
SetFineRecords(d, recordHash) == [d EXCEPT !.finedRecords = @ \cup {recordHash}]

\* the key addresses of the nodes with Staked - Fined >= MinStake.
QualifiedNodes(s, d) ==
    {publicKeyToNodeKeyAddress(Node(s, i).PublicKey) :
        i \in {j \in 0..(LenNodes(s) - 1) :
                  Node(s, j).Staked - Node(s, j).Fined >= MinStake(d)}}

\* The genesis configuration and the genesis nodes: every address of Addrs
\* has staked GenesisStaked under its own key.
GenesisDKGSetSize == 4
GenesisMinStake == 1
GenesisStaked == 1
GenesisFineValue == 1
GenesisTotalSupply == 1
GenesisRoundLength == 2
GenesisNextHalvingSupply == 2
\* dexCore.ConfigRoundShift and dexCore.DKGDelayRound.
ConfigRoundShift == 2
DKGDelayRound == 1
\* evm.Round: the round the calls are made in.
EvmRound == evm.Round
ReportTypeInvalidDKG == 0
ReportTypeForkVote == 1
ReportTypeForkBlock == 2

(***************************************************************************)
(* The registry as a state machine: any address calls any handler with any *)
(* argument, the host advances the block time.                             *)
(***************************************************************************)
GenesisState ==
    [nodes |-> [i \in Offsets |-> ZeroNode],
     lenNodes |-> 0,
     nodesOffsetByAddress |-> [a \in AllAddrs |-> 0],
     nodesOffsetByNodeKeyAddress |-> [a \in AllAddrs |-> 0],
     delegators |-> [a \in AllAddrs |-> [i \in Offsets |-> ZeroDelegator]],
     lenDelegators |-> [a \in AllAddrs |-> 0],
     delegatorsOffset |-> [a \in AllAddrs |-> [b \in AllAddrs |-> 0]],
     totalStaked |-> 0,
     lockupPeriod |-> GenesisLockupPeriod]

\* GovernanceState.Stake, the helper that creates the genesis nodes.
GenesisStake(s, addr, publicKey, staked, name, email, location, url) ==
    LET offset == LenNodes(s)
        node == [Owner |-> addr, PublicKey |-> publicKey, Staked |-> staked,
                 Fined |-> 0, Name |-> name, Email |-> email,
                 Location |-> location, Url |-> url]
        s1 == PutNodeOffsets(PushNode(s, node), node, offset).st
        s2 == PushDelegator(s1, addr, [Owner |-> addr, Value |-> staked,
                                       UndelegatedAt |-> 0])
        s3 == PutDelegatorOffset(s2, addr, addr, LenDelegators(s1, addr))
    IN  IF staked = 0 THEN s1 ELSE IncTotalStaked(s3, staked)

RECURSIVE GenesisNodes(_)
\* the genesis state with the addresses 1..n staked.
GenesisNodes(n) ==
    IF n <= 0 THEN GenesisState
    ELSE GenesisStake(GenesisNodes(n - 1), n, n, GenesisStaked, 31, 31, 31, 127)

\* the registry after the genesis block.
GenesisRegistry == GenesisNodes(NumAddrs)

\* the governance storage before Initialize: every slot reads zero.
ZeroDKG ==
    [owner |-> 0,
     minStake |-> 0,
     dkgSetSize |-> 0,
     fineValues |-> <<>>,
     nextHalvingSupply |-> 0,
     roundLength |-> 0,
     dkgResetCount |-> [r \in 0..(MaxSnapshotRound + 1) |-> 0],
     totalSupply |-> 0,
     roundHeight |-> <<>>,
     crs |-> ZeroHash,
     crsRound |-> 0,
     dkgRound |-> 0,
     dkgMasterPublicKeys |-> <<>>,
     dkgComplaints |-> <<>>,
     dkgReady |-> [a \in AllAddrs |-> FALSE],
     dkgReadysCount |-> 0,
     dkgFinalized |-> [a \in AllAddrs |-> FALSE],
     dkgFinalizedsCount |-> 0,
     finedRecords |-> {}]

\* GovernanceState.UpdateConfiguration: the fields of the configuration
\* that the handlers read.
StateUpdateConfiguration(d, cfg) ==
    [d EXCEPT !.minStake = cfg.MinStake,
              !.nextHalvingSupply = cfg.NextHalvingSupply,
              !.dkgSetSize = cfg.DKGSetSize,
              !.roundLength = cfg.RoundLength,
              !.fineValues = cfg.FineValues]

\* Initialize, the guard: the genesis is invalid.
InitializeInvalidBelowOnly(config, totalSupply) ==
    config.NextHalvingSupply < totalSupply
InitializeInvalid(config, totalSupply) ==
    config.NextHalvingSupply <= totalSupply

\* Initialize: panics on an invalid genesis before any write.
Initialize(d, config, totalSupply) ==
    LET d1 == SetCRS(d, Keccak256Hash(config.GenesisCRSText))
        d2 == PushRoundHeight(d1, 0)
        d3 == SetOwner(d2, config.Owner)
        d4 == StateUpdateConfiguration(d3, config)
        d5 == IncTotalSupply(d4, totalSupply)
        d6 == SetDKGRound(d5, DKGDelayRound)
    IN  IF InitializeInvalid(config, totalSupply)
        THEN [panic |-> TRUE, st |-> d]
        ELSE [panic |-> FALSE, st |-> d6]

\* the genesis configuration and supply of the chain the handlers run on.
GenesisCRSText == <<1>>
GenesisConfig ==
    [Owner |-> 1,
     MinStake |-> GenesisMinStake,
     DKGSetSize |-> GenesisDKGSetSize,
     RoundLength |-> GenesisRoundLength,
     FineValues |-> <<GenesisFineValue, GenesisFineValue, GenesisFineValue>>,
     NextHalvingSupply |-> GenesisNextHalvingSupply,
     GenesisCRSText |-> GenesisCRSText]
\* the governance storage after the genesis block.
GenesisDKG == Initialize(ZeroDKG, GenesisConfig, GenesisTotalSupply).st

(***************************************************************************)
(* GovernanceContract: the DKG, CRS and fine handlers.  They read the      *)
(* round and the block number from evm, and the state a round started at   *)
(* through getRoundState.                                                  *)
(***************************************************************************)
OkDKG(s, d) == [st |-> s, dkg |-> d, out |-> "ok"]
FailDKG(s, d, out) == [st |-> s, dkg |-> d, out |-> out]

\* getRoundState: the height of the round is read from the live storage
\* and evm.StateAtNumber answers the state committed at that height; a
\* round past ConfigRoundShift whose height is not recorded is an error
\* (getRoundStateStrict: so is every round past 0).
getRoundStateStrict(round) ==
    LET height == RoundHeight(dkg, round)
    IN  IF round > 0 /\ height = 0
        THEN [ok |-> FALSE, st |-> GenesisState, dkg |-> ZeroDKG]
        ELSE [ok |-> TRUE, st |-> evm.chain[height].st, dkg |-> evm.chain[height].dkg]
getRoundState(round) ==
    LET height == RoundHeight(dkg, round)
    IN  IF round > ConfigRoundShift /\ height = 0
        THEN [ok |-> FALSE, st |-> GenesisState, dkg |-> ZeroDKG]
        ELSE [ok |-> TRUE, st |-> evm.chain[height].st, dkg |-> evm.chain[height].dkg]

\* getConfigState without the shift.
getConfigStateNoShift(round) == getRoundState(round)
getConfigState(round) ==
    getRoundState(IF round > ConfigRoundShift THEN round - ConfigRoundShift ELSE 0)

configDKGSetSize(round) ==
    IF getConfigState(round).ok THEN DKGSetSize(getConfigState(round).dkg) ELSE 0

\* NodeSet.GetSubSet: the size members nearest to the target; the order of
\* the addresses stands for the order of the distances.
GetSubSet(ns, size) ==
    IF size >= Cardinality(ns) THEN ns
    ELSE {a \in ns : Cardinality({b \in ns : b < a}) < size}

getDKGSet(d, round) ==
    LET cfg == getConfigState(round)
        set == IF cfg.ok
               THEN GetSubSet(QualifiedNodes(cfg.st, cfg.dkg), configDKGSetSize(round))
               ELSE {}
    IN  IF round <= DKGDelayRound
        THEN (IF getRoundState(0).ok THEN set ELSE {})
        ELSE IF round > CRSRound(d) THEN {}
        ELSE IF round = CRSRound(d) THEN set
        ELSE IF getRoundState(round).ok THEN set ELSE {}

inDKGSet(d, round, nodeID) == nodeID \in getDKGSet(d, round)

clearDKG(d) ==
    LET dkgSet == getDKGSet(d, EvmRound)
    IN  ResetDKGFinalizedsCount(ClearDKGFinalized(
            ResetDKGMPKReadysCount(ClearDKGMPKReady(
                ClearDKGComplaints(ClearDKGMasterPublicKeys(d)), dkgSet)), dkgSet))

\* rlp.DecodeBytes and the coreUtils verifiers, on a modelled payload.
Decodes(payload) == payload.kind # "undecodable"
SignatureVerified(payload) == payload.kind # "unsigned"
ComplaintVerified(payload) == payload.kind # "invalid"

RECURSIVE BytesLess(_, _)
\* sortBytes.Less: bytes.Compare(a, b) < 0, the lexicographic order.
BytesLess(a, b) ==
    IF b = <<>> THEN FALSE
    ELSE IF a = <<>> THEN TRUE
    ELSE IF Head(a) # Head(b) THEN Head(a) < Head(b)
    ELSE BytesLess(Tail(a), Tail(b))

RECURSIVE InsertBytes(_, _)
\* payload put into the sorted sequence sorted, before the first larger one.
InsertBytes(sorted, payload) ==
    IF sorted = <<>> THEN <<payload>>
    ELSE IF BytesLess(payload, Head(sorted)) THEN <<payload>> \o sorted
    ELSE <<Head(sorted)>> \o InsertBytes(Tail(sorted), payload)

RECURSIVE SortBytes(_)
\* sort.Sort(sortBytes(payloads)).
SortBytes(payloads) ==
    IF payloads = <<>> THEN <<>>
    ELSE InsertBytes(SortBytes(Tail(payloads)), Head(payloads))

RECURSIVE Concat(_)
\* the bytes crypto.Keccak256Hash(payloads...) hashes: one after the other.
Concat(payloads) ==
    IF payloads = <<>> THEN <<>> ELSE Head(payloads) \o Concat(Tail(payloads))

\* fine, the record hash: of the payloads as they were passed.
fineHashUnsorted(payloads) == Keccak256Hash(Concat(payloads))
\* fine, the record hash: of the sorted payloads.
fineHash(payloads) == Keccak256Hash(Concat(SortBytes(payloads)))

\* fine: a record hash is fined once; the record is written before the
\* node is looked up, and a failed call writes nothing.
fineUnrecorded(s, d, nodeAddr, amount, payloads) ==
    LET hash == fineHash(payloads)
        nodeOffset == NodesOffsetByAddress(s, nodeAddr)
        node == Node(s, nodeOffset)
        d1 == d
    IN  IF FineRecords(d, hash) THEN FailDKG(s, d, "already fined")
        ELSE IF nodeOffset < 0 THEN FailDKG(s, d, "reverted")
        ELSE OkDKG(UpdateNode(s, nodeOffset,
                              [node EXCEPT !.Fined = node.Fined + amount]), d1)

fine(s, d, nodeAddr, amount, payloads) ==
    LET hash == fineHash(payloads)
        nodeOffset == NodesOffsetByAddress(s, nodeAddr)
        node == Node(s, nodeOffset)
        d1 == SetFineRecords(d, hash)
    IN  IF FineRecords(d, hash) THEN FailDKG(s, d, "already fined")
        ELSE IF nodeOffset < 0 THEN FailDKG(s, d, "reverted")
        ELSE OkDKG(UpdateNode(s, nodeOffset,
                              [node EXCEPT !.Fined = node.Fined + amount]), d1)

\* the bytes of a modelled DKG payload: its kind and its two IDs.
PayloadBytes(payload) ==
    <<CASE payload.kind = "nofine" -> 1
        [] payload.kind = "fine" -> 2
        [] payload.kind = "good" -> 3
        [] OTHER -> 4,
      payload.ProposerID, payload.ShareProposerID>>

\* 2f as addDKGComplaint and addDKGMasterPublicKey calculate it.
complaintThreshold(d) == 2 * (DKGSetSize(d) \div 3)
mpkThresholdFloor(d) == (2 * DKGSetSize(d)) \div 3
mpkThreshold(d) == 2 * (DKGSetSize(d) \div 3)
\* f + 1 as proposeCRS calculates it.
proposeCRSThreshold(d) == DKGSetSize(d) \div 3 + 1
\* 2f as resetDKG calculates it.
resetThresholdFloor(d) == (2 * DKGSetSize(d)) \div 3
resetThreshold(d) == 2 * (DKGSetSize(d) \div 3)

addDKGComplaint(s, d, caller, round, comp) ==
    LET offset == NodesOffsetByNodeKeyAddress(s, caller)
        shareOffset == NodesOffsetByNodeKeyAddress(s, comp.ShareProposerID)
        fined == fine(s, d, Node(s, shareOffset).Owner,
                      FineValue(d, ReportTypeInvalidDKG), <<PayloadBytes(comp), <<>>>>)
    IN  IF round # EvmRound + 1 THEN FailDKG(s, d, "reverted")
        ELSE IF offset < 0 THEN FailDKG(s, d, "reverted")
        ELSE IF DKGFinalized(d, caller) THEN FailDKG(s, d, "penalized")
        ELSE IF DKGFinalizedsCount(d) > complaintThreshold(d)
             THEN FailDKG(s, d, "reverted")
        ELSE IF ~Decodes(comp) THEN FailDKG(s, d, "penalized")
        ELSE IF ~inDKGSet(d, round, comp.ProposerID) THEN FailDKG(s, d, "penalized")
        ELSE IF ~SignatureVerified(comp) THEN FailDKG(s, d, "penalized")
        ELSE IF GetDKGMasterPublicKeyByProposerID(d, comp.ShareProposerID).err # "nil"
             THEN FailDKG(s, d, "penalized")
        ELSE IF ~ComplaintVerified(comp) THEN FailDKG(s, d, "penalized")
        ELSE IF comp.kind = "needError" THEN FailDKG(s, d, "penalized")
        ELSE IF comp.kind = "fine"
             THEN (IF fined.out # "ok" THEN FailDKG(s, d, "penalized")
                   ELSE OkDKG(fined.st, PushDKGComplaint(fined.dkg, comp)))
        ELSE OkDKG(s, PushDKGComplaint(d, comp))

addDKGMasterPublicKeyPenalizing(s, d, caller, round, mpk) ==
    LET d1 == IF DKGRound(d) = EvmRound THEN SetDKGRound(clearDKG(d), round) ELSE d
        offset == NodesOffsetByNodeKeyAddress(s, caller)
    IN  IF round # EvmRound + 1 THEN FailDKG(s, d, "reverted")
        ELSE IF offset < 0 THEN FailDKG(s, d, "reverted")
        ELSE IF DKGMPKReady(d1, caller) THEN FailDKG(s, d, "penalized")
        ELSE IF DKGMPKReadysCount(d1) > mpkThreshold(d1) THEN FailDKG(s, d, "penalized")
        ELSE IF ~Decodes(mpk) THEN FailDKG(s, d, "penalized")
        ELSE IF ~inDKGSet(d1, round, mpk.ProposerID) THEN FailDKG(s, d, "penalized")
        ELSE IF ~SignatureVerified(mpk) THEN FailDKG(s, d, "penalized")
        ELSE OkDKG(s, PushDKGMasterPublicKey(d1, mpk))

addDKGMasterPublicKey(s, d, caller, round, mpk) ==
    LET d1 == IF DKGRound(d) = EvmRound THEN SetDKGRound(clearDKG(d), round) ELSE d
        offset == NodesOffsetByNodeKeyAddress(s, caller)
    IN  IF round # EvmRound + 1 THEN FailDKG(s, d, "reverted")
        ELSE IF offset < 0 THEN FailDKG(s, d, "reverted")
        ELSE IF DKGMPKReady(d1, caller) THEN FailDKG(s, d, "penalized")
        ELSE IF DKGMPKReadysCount(d1) > mpkThreshold(d1) THEN FailDKG(s, d, "reverted")
        ELSE IF ~Decodes(mpk) THEN FailDKG(s, d, "penalized")
        ELSE IF ~inDKGSet(d1, round, mpk.ProposerID) THEN FailDKG(s, d, "penalized")
        ELSE IF ~SignatureVerified(mpk) THEN FailDKG(s, d, "penalized")
        ELSE OkDKG(s, PushDKGMasterPublicKey(d1, mpk))

addDKGMPKReady(s, d, caller, round, ready) ==
    IF round # EvmRound + 1 THEN FailDKG(s, d, "reverted")
    ELSE IF ~Decodes(ready) THEN FailDKG(s, d, "penalized")
    ELSE IF ~inDKGSet(d, round, ready.ProposerID) THEN FailDKG(s, d, "penalized")
    ELSE IF ~SignatureVerified(ready) THEN FailDKG(s, d, "penalized")
    ELSE IF ~DKGMPKReady(d, caller)
         THEN OkDKG(s, IncDKGMPKReadysCount(PutDKGMPKReady(d, caller, TRUE)))
    ELSE OkDKG(s, d)

addDKGFinalize(s, d, caller, round, finalize) ==
    IF round # EvmRound + 1 THEN FailDKG(s, d, "reverted")
    ELSE IF ~Decodes(finalize) THEN FailDKG(s, d, "penalized")
    ELSE IF ~inDKGSet(d, round, finalize.ProposerID) THEN FailDKG(s, d, "penalized")
    ELSE IF ~SignatureVerified(finalize) THEN FailDKG(s, d, "penalized")
    ELSE IF ~DKGFinalized(d, caller)
         THEN OkDKG(s, IncDKGFinalizedsCount(PutDKGFinalized(d, caller, TRUE)))
    ELSE OkDKG(s, d)

RECURSIVE HashTimes(_, _)
\* crs = crypto.Keccak256Hash(crs[:]), n times.
HashTimes(crs, n) == IF n <= 0 THEN crs ELSE HashTimes(Keccak256Hash(crs), n - 1)

\* A threshold signature of the group key is modelled by the hash it signs
\* behind a marker: it verifies over that hash and over no other.
Sign(hash) == <<1>> \o hash
VerifySignature(hash, signature) == signature = Sign(hash)

\* what coreDKGUtils.NewGroupPublicKey answers: a key or one of its errors.
GPKOutcomes == {"ok", "ErrNotReachThreshold", "ErrInvalidThreshold", "other"}

\* proposeCRS, the hash the signature is verified over.
proposeCRSPrev(d) ==
    IF EvmRound = DKGDelayRound THEN HashTimes(CRS(d), DKGDelayRound) ELSE CRS(d)

\* proposeCRS, the rejection of a round that is not next or already proposed.
proposeCRSRejectedNotNextOnly(d, nextRound) ==
    nextRound # EvmRound + 1
proposeCRSRejected(d, nextRound) ==
    nextRound # EvmRound + 1 \/ CRSRound(d) = nextRound

\* proposeCRS, the verification of the signature.
proposeCRSVerifiedAlways(d, signedCRS) == TRUE
proposeCRSVerified(d, signedCRS) == VerifySignature(proposeCRSPrev(d), signedCRS)

\* gpk is the answer of NewGroupPublicKey(nextRound, DKGSetSize/3 + 1).
proposeCRS(s, d, nextRound, signedCRS, gpk) ==
    IF proposeCRSRejected(d, nextRound) THEN FailDKG(s, d, "reverted")
    ELSE IF gpk # "ok" THEN FailDKG(s, d, "reverted")
    ELSE IF ~proposeCRSVerified(d, signedCRS) THEN FailDKG(s, d, "penalized")
    ELSE OkDKG(s, SetCRSRound(SetCRS(d, Keccak256Hash(signedCRS)), nextRound))

\* resetDKG, the hash the signature is verified over.
resetDKGPrev(d) ==
    HashTimes(CRS(getRoundState(EvmRound).dkg), DKGResetCount(d, EvmRound) + 1)

\* resetDKG, the block number from which the round can be reset: the
\* round length is the one of the configuration of the round
\* (resetDKGTargetLive: the one stored).
resetDKGTargetLive(d) ==
    LET target == 80 + 100 * DKGResetCount(d, EvmRound)
    IN  ((RoundLength(d) * target) \div 100) + RoundHeight(d, EvmRound)
resetDKGTarget(d) ==
    LET target == 80 + 100 * DKGResetCount(d, EvmRound)
        gs == getConfigState(EvmRound)
    IN  ((RoundLength(gs.dkg) * target) \div 100) + RoundHeight(d, EvmRound)

\* resetDKG, the check that the next DKG did not succeed: past 2f finalized
\* callers the key of the next round is built, and the reset is refused
\* unless that fails for want of shares (resetDKGSucceededKeyOnly: unless
\* that fails).
resetDKGSucceededKeyOnly(d, gpkNext) ==
    DKGFinalizedsCount(d) > resetThreshold(d) /\ gpkNext = "ok"
resetDKGSucceeded(d, gpkNext) ==
    /\ DKGFinalizedsCount(d) > resetThreshold(d)
    /\ gpkNext \notin {"ErrNotReachThreshold", "ErrInvalidThreshold"}

\* gpkNext is the answer of NewGroupPublicKey(nextRound, threshold), gpkRound
\* the answer of NewGroupPublicKey(round, config.DKGSetSize/3 + 1).
resetDKG(s, d, newSignedCRS, gpkNext, gpkRound) ==
    LET round == EvmRound
        gs == getConfigState(round)
        d1 == SetDKGRound(clearDKG(d), round + 1)
        d2 == SetCRSRound(SetCRS(d1, Keccak256Hash(newSignedCRS)), round + 1)
    IN  IF round = 0 THEN FailDKG(s, d, "reverted")
        ELSE IF ~gs.ok THEN FailDKG(s, d, "reverted")
        ELSE IF evm.BlockNumber < resetDKGTarget(d) THEN FailDKG(s, d, "reverted")
        ELSE IF resetDKGSucceeded(d, gpkNext) THEN FailDKG(s, d, "reverted")
        ELSE IF ~getRoundState(round).ok THEN FailDKG(s, d, "reverted")
        ELSE IF gpkRound # "ok" THEN FailDKG(s, d, "reverted")
        ELSE IF ~VerifySignature(resetDKGPrev(d), newSignedCRS)
             THEN FailDKG(s, d, "penalized")
        ELSE OkDKG(s, IncDKGResetCount(d2, round + 1))

\* A vote or a block is modelled by two bytes, the key address of its
\* proposer and its content; rlp.DecodeBytes rejects any other length.
ArtifactDecodes(arg) == Len(arg) = 2
ArtifactProposerID(arg) == arg[1]
\* coreUtils.NeedPenaltyForkVote and NeedPenaltyForkBlock: the two artifacts
\* are of one proposer and differ.
NeedPenaltyFork(arg1, arg2) ==
    ArtifactProposerID(arg1) = ArtifactProposerID(arg2) /\ arg1 # arg2

\* report: every error of fine is a revert.
report(s, d, reportType, arg1, arg2) ==
    LET offset == NodesOffsetByNodeKeyAddress(s, ArtifactProposerID(arg1))
        node == Node(s, offset)
        fined == fine(s, d, node.Owner, FineValue(d, reportType), <<arg1, arg2>>)
    IN  IF reportType \notin {ReportTypeForkVote, ReportTypeForkBlock}
        THEN FailDKG(s, d, "penalized")
        ELSE IF ~ArtifactDecodes(arg1) THEN FailDKG(s, d, "penalized")
        ELSE IF ~ArtifactDecodes(arg2) THEN FailDKG(s, d, "penalized")
        ELSE IF ~NeedPenaltyFork(arg1, arg2) THEN FailDKG(s, d, "penalized")
        ELSE IF fined.out # "ok" THEN FailDKG(s, d, "reverted")
        ELSE fined

\* the raw configuration that is stored: the fields the handlers read.
RawConfig(s, d) ==
    [MinStake |-> MinStake(d),
     LockupPeriod |-> LockupPeriod(s),
     DKGSetSize |-> DKGSetSize(d),
     RoundLength |-> RoundLength(d),
     FineValues |-> d.fineValues]

\* GovernanceState.UpdateConfigurationRaw: the lockup period is kept with
\* the registry, the other fields with the governance fields.
UpdateConfigurationRaw(s, d, cfg) ==
    [st |-> [s EXCEPT !.lockupPeriod = cfg.LockupPeriod],
     dkg |-> [d EXCEPT !.minStake = cfg.MinStake,
                       !.dkgSetSize = cfg.DKGSetSize,
                       !.roundLength = cfg.RoundLength,
                       !.fineValues = cfg.FineValues]]

\* updateConfiguration: only the owner (updateConfigurationByAnyone: any
\* caller).
updateConfigurationByAnyone(s, d, caller, cfg) ==
    LET updated == UpdateConfigurationRaw(s, d, cfg)
    IN  OkDKG(updated.st, updated.dkg)
updateConfiguration(s, d, caller, cfg) ==
    LET updated == UpdateConfigurationRaw(s, d, cfg)
    IN  IF caller # Owner(d) THEN FailDKG(s, d, "reverted")
        ELSE OkDKG(updated.st, updated.dkg)

\* transferOwnership: only the owner.
transferOwnership(s, d, caller, newOwner) ==
    IF caller # Owner(d) THEN FailDKG(s, d, "reverted")
    ELSE OkDKG(s, SetOwner(d, newOwner))

NoCall == [op |-> "none", caller |-> 0, node |-> 0, offset |-> -1]

NotRead == [panic |-> FALSE, data |-> <<>>]

\* no DKG item stored, no flag set.
NoHist ==
    [mpks |-> <<>>, complaints |-> <<>>,
     ready |-> [a \in AllAddrs |-> -1],
     finalized |-> [a \in AllAddrs |-> -1],
     readySince |-> {}, finalizedSince |-> {}, fined |-> <<>>]

\* the committed state as the handlers read it through getRoundState: the
\* nodes, the configuration and the CRS; the other fields read zero.
Committed(s, d) ==
    [st |-> s,
     dkg |-> [ZeroDKG EXCEPT !.owner = d.owner, !.minStake = d.minStake,
                             !.dkgSetSize = d.dkgSetSize,
                             !.fineValues = d.fineValues,
                             !.nextHalvingSupply = d.nextHalvingSupply,
                             !.roundLength = d.roundLength,
                             !.crs = d.crs, !.crsRound = d.crsRound]]

\* the host after the genesis block: round 0, block 0, and the genesis
\* state as the state at number 0.
GenesisEvm(s) ==
    [Round |-> 0, BlockNumber |-> 0, chain |-> (0 :> Committed(s, GenesisDKG))]

HostIdle(s) ==
    /\ evm = GenesisEvm(s)
    /\ hist = NoHist

BytesIdle ==
    /\ store = EmptyStore
    /\ held = <<>>
    /\ got = NotRead

Init ==
    /\ state = GenesisState
    /\ balance = 0
    /\ now = 1
    /\ calls = 0
    /\ last = NoCall
    /\ dkg = GenesisDKG
    /\ HostIdle(GenesisState)
    /\ BytesIdle

\* One call of caller c about node address n: the host credits the attached
\* value, runs the handler and commits its writes and its transfer.  When
\* the handler fails the host rolls everything back: nothing changes.
Call(op, c, n, r, value) ==
    /\ calls < MaxCalls
    /\ r.out = "ok"
    /\ state' = r.st
    /\ balance' = balance + value - r.paid.amount
    /\ calls' = calls + 1
    /\ last' = [op |-> op, caller |-> c, node |-> n,
                offset |-> IF op = "withdraw" THEN DelegatorsOffset(state, n, c)
                           ELSE -1]
    /\ UNCHANGED <<now, store, held, got, dkg, evm, hist>>

Stake(c, v, pk, name, email, location, url) ==
    Call("stake", c, c, stake(state, c, v, pk, name, email, location, url), v)
Delegate(c, v, n) == Call("delegate", c, n, delegate(state, c, v, n), v)
Undelegate(c, n) == Call("undelegate", c, n, undelegate(state, c, n, now), 0)
Withdraw(c, n) == Call("withdraw", c, n, withdraw(state, balance, c, n, now), 0)
Unstake(c) == Call("unstake", c, c, unstake(state, c, now), 0)
PayFine(c, v, n) == Call("payFine", c, n, payFine(state, c, v, n), v)

\* The host moves to a later block.
Tick ==
    /\ now < MaxTime
    /\ now' = now + 1
    /\ UNCHANGED <<state, balance, calls, last, store, held, got, dkg, evm, hist>>

StakeStep ==
    \E c \in Addrs, v \in Values, pk \in AllAddrs, text \in StakeTexts :
        /\ pk \in PublicKeys(c)
        /\ Stake(c, v, pk, text[1], text[2], text[3], text[4])
DelegateStep == \E c \in Addrs, v \in Values, n \in Addrs : Delegate(c, v, n)
UndelegateStep == \E c \in Addrs, n \in Addrs : Undelegate(c, n)
WithdrawStep == \E c \in Addrs, n \in Addrs : Withdraw(c, n)
UnstakeStep == \E c \in Addrs : Unstake(c)
PayFineStep == \E c \in Addrs, v \in Values, n \in Addrs : PayFine(c, v, n)

Next ==
    \/ StakeStep
    \/ DelegateStep
    \/ UndelegateStep
    \/ WithdrawStep
    \/ UnstakeStep
    \/ Tick

Spec == Init /\ [][Next]_vars

TypeOK ==
    /\ state.lenNodes \in 0..NumAddrs
    /\ \A a \in AllAddrs : state.lenDelegators[a] \in 0..NumAddrs

(***************************************************************************)
(* Quantities the properties speak of.                                     *)
(***************************************************************************)
RECURSIVE SumNodeStaked(_, _)
\* The sum of Staked over the records at offsets 0..n-1.
SumNodeStaked(s, n) ==
    IF n <= 0 THEN 0 ELSE Node(s, n - 1).Staked + SumNodeStaked(s, n - 1)

RECURSIVE SumLiveValue(_, _, _)
\* The sum of Value over the rows of nodeAddr at offsets 0..n-1 that are
\* still delegated (UndelegatedAt = 0).
SumLiveValue(s, nodeAddr, n) ==
    IF n <= 0 THEN 0
    ELSE (IF Delegator(s, nodeAddr, n - 1).UndelegatedAt = 0
          THEN Delegator(s, nodeAddr, n - 1).Value ELSE 0)
         + SumLiveValue(s, nodeAddr, n - 1)

\* The last successful call was a withdraw that removed node last.node:
\* withdraw removes the node exactly when it leaves no delegator row.
NodeRemoved ==
    /\ last.op = "withdraw"
    /\ LenDelegators(state, last.node) = 0

\* C1: after every successful call, TotalStaked is the sum of Staked over
\* the records at offsets 0..LenNodes-1.
C1_TotalStakedIsSum ==
    TotalStaked(state) = SumNodeStaked(state, LenNodes(state))

\* C2: after every successful call, every owner address with a node offset
\* resolves to a record whose Staked is the sum of the Values of that
\* node's rows that are still delegated.
C2_StakedIsLiveSum ==
    \A a \in Addrs :
        NodesOffsetByAddress(state, a) >= 0 =>
            Node(state, NodesOffsetByAddress(state, a)).Staked
                = SumLiveValue(state, a, LenDelegators(state, a))

\* C3: after a call that removed a node, every record at an offset below
\* LenNodes is the one both reverse indices resolve to.
C3_IndexIntegrity ==
    NodeRemoved =>
        \A i \in Offsets :
            i < LenNodes(state) =>
                /\ NodesOffsetByAddress(state, Node(state, i).Owner) = i
                /\ NodesOffsetByNodeKeyAddress(
                       state, publicKeyToNodeKeyAddress(Node(state, i).PublicKey)) = i

\* C4: a step that removes a node shortens the array by exactly one and
\* leaves every other node reachable through NodesOffsetByAddress, with
\* its full record.
C4_RemovalKeepsOthers ==
    [][LenNodes(state') < LenNodes(state) =>
          /\ LenNodes(state') = LenNodes(state) - 1
          /\ \A a \in Addrs :
                (a # last'.node /\ NodesOffsetByAddress(state, a) >= 0) =>
                    /\ NodesOffsetByAddress(state', a) >= 0
                    /\ Node(state', NodesOffsetByAddress(state', a))
                           = Node(state, NodesOffsetByAddress(state, a))]_vars

\* C5: right after a step that removes a node, the removed owner and the
\* removed node's key address both read as absent (-1).
C5_NoDanglingIndex ==
    [][LenNodes(state') < LenNodes(state) =>
          LET removed == Node(state, NodesOffsetByAddress(state, last'.node))
          IN  /\ NodesOffsetByAddress(state', last'.node) = -1
              /\ NodesOffsetByNodeKeyAddress(
                     state', publicKeyToNodeKeyAddress(removed.PublicKey)) = -1]_vars

\* The owners of the rows of nodeAddr.
RowOwners(s, nodeAddr) ==
    {Delegator(s, nodeAddr, j).Owner : j \in {k \in Offsets : k < LenDelegators(s, nodeAddr)}}

\* C6: for every node address, every row at an offset below
\* LenDelegators is the one DelegatorsOffset resolves its owner to, and
\* DelegatorsOffset is absent (-1) for every address that has no row.
C6_DelegatorIndexIntegrity ==
    \A n \in Addrs :
        /\ \A j \in Offsets :
               j < LenDelegators(state, n) =>
                   DelegatorsOffset(state, n, Delegator(state, n, j).Owner) = j
        /\ \A a \in Addrs :
               a \notin RowOwners(state, n) => DelegatorsOffset(state, n, a) = -1

\* C6, witness: a withdraw has removed the middle row of three.
C6_Witness ==
    /\ last.op = "withdraw"
    /\ last.offset = 1
    /\ LenDelegators(state, last.node) = 2

\* The node of address n exists: its offset resolves to a slot of the array.
NodeExists(s, n) ==
    /\ NodesOffsetByAddress(s, n) >= 0
    /\ NodesOffsetByAddress(s, n) < LenNodes(s)

\* C7: in every state, for a caller c with a row on an existing node n,
\* withdraw succeeds exactly when the row is undelegated and the block time
\* is past UndelegatedAt + lockupPeriod, and is penalized otherwise; when it
\* succeeds it transfers exactly the row's Value to c and removes the row.
C7_WithdrawLockup ==
    \A c \in Addrs, n \in Addrs :
        (NodeExists(state, n) /\ DelegatorsOffset(state, n, c) >= 0) =>
            LET row == Delegator(state, n, DelegatorsOffset(state, n, c))
                unlocked == /\ row.UndelegatedAt # 0
                            /\ now > row.UndelegatedAt + LockupPeriod(state)
                r == withdraw(state, balance, c, n, now)
            IN  /\ (r.out = "ok") <=> unlocked
                /\ ~unlocked => r.out = "penalized"
                /\ unlocked =>
                       /\ r.paid = [to |-> c, amount |-> row.Value]
                       /\ DelegatorsOffset(r.st, n, c) = -1
                       /\ c \notin RowOwners(r.st, n)
                       /\ LenDelegators(r.st, n) = LenDelegators(state, n) - 1

\* C7, witness: a withdraw succeeded, in a state where another row is
\* exactly at the boundary now = UndelegatedAt + lockupPeriod.
C7_Witness ==
    /\ last.op = "withdraw"
    /\ \E c \in Addrs, n \in Addrs :
           /\ NodeExists(state, n)
           /\ DelegatorsOffset(state, n, c) >= 0
           /\ Delegator(state, n, DelegatorsOffset(state, n, c)).UndelegatedAt # 0
           /\ now = Delegator(state, n, DelegatorsOffset(state, n, c)).UndelegatedAt
                        + LockupPeriod(state)

\* C20: for every owner c of an unfined node, unstake succeeds whatever the
\* rows of the node are (a row that has already undelegated is skipped), and
\* afterwards every row of the node is undelegated.
C20_UnstakeSkipsFailed ==
    \A c \in Addrs :
        (NodeExists(state, c) /\ Node(state, NodesOffsetByAddress(state, c)).Fined = 0) =>
            LET r == unstake(state, c, now)
            IN  /\ r.out = "ok"
                /\ \A j \in Offsets :
                       j < LenDelegators(r.st, c) =>
                           Delegator(r.st, c, j).UndelegatedAt # 0

(***************************************************************************)
(* The DKG protocol of round 1 as a state machine, in round 0: any account *)
(* submits any payload, the owner changes the configuration.               *)
(***************************************************************************)
MaxDKGSetSize == 6
MaxMPKs == 2
MaxComplaints == 2

DKGSetSizes == 1..MaxDKGSetSize
Rounds == {EvmRound + 1, EvmRound + 2}
Outsider == NumAddrs + 1

Payload(kind, proposerID, shareProposerID) ==
    [kind |-> kind, ProposerID |-> proposerID, ShareProposerID |-> shareProposerID]

\* master public keys, MPK-ready and finalize messages.
Messages ==
    {Payload(k, p, 0) : k \in {"good", "undecodable", "unsigned"}, p \in {1, Outsider}}

Complaints ==
    {Payload(k, p, q) :
        k \in {"nofine", "fine", "undecodable", "unsigned", "invalid", "needError"},
        p \in {1, Outsider}, q \in {1, 2}}

InitDKG ==
    /\ state = GenesisRegistry
    /\ balance = 0
    /\ now = 1
    /\ calls = 0
    /\ last = NoCall
    /\ dkg = GenesisDKG
    /\ HostIdle(GenesisRegistry)
    /\ BytesIdle

CallDKG(r) ==
    /\ r.out = "ok"
    /\ Len(DKGMasterPublicKeys(r.dkg)) <= MaxMPKs
    /\ Len(DKGComplaints(r.dkg)) <= MaxComplaints
    /\ state' = r.st
    /\ dkg' = r.dkg
    /\ UNCHANGED <<balance, now, calls, last, store, held, got, evm, hist>>

AddDKGMasterPublicKey ==
    \E c \in Accounts, round \in Rounds, mpk \in Messages :
        CallDKG(addDKGMasterPublicKey(state, dkg, c, round, mpk))

AddDKGMPKReady ==
    \E c \in Accounts, round \in Rounds, ready \in Messages :
        CallDKG(addDKGMPKReady(state, dkg, c, round, ready))

AddDKGFinalize ==
    \E c \in Accounts, round \in Rounds, finalize \in Messages :
        CallDKG(addDKGFinalize(state, dkg, c, round, finalize))

AddDKGComplaint ==
    \E c \in Accounts, round \in Rounds, comp \in Complaints :
        CallDKG(addDKGComplaint(state, dkg, c, round, comp))

UpdateConfiguration ==
    \E c \in Accounts, size \in DKGSetSizes :
        CallDKG(updateConfiguration(state, dkg, c,
                    [RawConfig(state, dkg) EXCEPT !.DKGSetSize = size]))

NextDKG ==
    \/ AddDKGMasterPublicKey
    \/ AddDKGMPKReady
    \/ AddDKGFinalize
    \/ AddDKGComplaint
    \/ UpdateConfiguration

SpecDKG == InitDKG /\ [][NextDKG]_vars

\* The threshold T of the round: floor(2 * N / 3), N the DKG set size of the
\* round's configuration.
RoundThreshold == (2 * configDKGSetSize(EvmRound + 1)) \div 3

\* some registered caller that has not finalized submits a complaint that
\* the handler accepts.
ComplaintAccepted(d) ==
    \E c \in Accounts, comp \in Complaints :
        /\ NodesOffsetByNodeKeyAddress(state, c) >= 0
        /\ ~DKGFinalized(d, c)
        /\ addDKGComplaint(state, d, c, EvmRound + 1, comp).out = "ok"

\* C10: once DKGFinalizedsCount exceeds the threshold T of the round, every
\* addDKGComplaint for the round from a registered caller that has not
\* finalized is rejected and the stored complaints stay as they are.
C10_ComplaintGated ==
    DKGFinalizedsCount(dkg) > RoundThreshold =>
        \A c \in Accounts, comp \in Complaints :
            (NodesOffsetByNodeKeyAddress(state, c) >= 0 /\ ~DKGFinalized(dkg, c)) =>
                LET r == addDKGComplaint(state, dkg, c, EvmRound + 1, comp)
                IN  r.out # "ok" /\ DKGComplaints(r.dkg) = DKGComplaints(dkg)

\* The gate as the handler computes it, from the live DKG set size: past
\* 2 * (N div 3) finalized callers no complaint is accepted.
ComplaintGatedByLiveSize ==
    DKGFinalizedsCount(dkg) > complaintThreshold(dkg) => ~ComplaintAccepted(dkg)

\* some registered caller that is not marked ready submits a master public
\* key that the handler accepts.
MPKAccepted(d) ==
    \E c \in Accounts, mpk \in Messages :
        addDKGMasterPublicKey(state, d, c, EvmRound + 1, mpk).out = "ok"

\* C11 as stated: once DKGFinalizedsCount exceeds the threshold T of the
\* round, no addDKGMasterPublicKey for the round is accepted, whatever the
\* ready count.
C11_MPKGatedByFinalized ==
    DKGFinalizedsCount(dkg) > RoundThreshold => ~MPKAccepted(dkg)

\* C11 amended: addDKGMasterPublicKey is gated by the MPK-ready count: once
\* DKGMPKReadysCount exceeds 2 * (N div 3), N the stored DKG set size, and
\* no clearing of the DKG state is pending, no master public key is
\* accepted, whatever the finalized count.
C11_MPKGatedByReady ==
    (DKGRound(dkg) # EvmRound
        /\ DKGMPKReadysCount(dkg) > 2 * (DKGSetSize(dkg) \div 3)) =>
        ~MPKAccepted(dkg)

\* the ready count is past the gate while the finalized count is not, and a
\* registered caller that is not ready holds a well-formed key.
C11_Witness ==
    /\ DKGMPKReadysCount(dkg) > 2 * (DKGSetSize(dkg) \div 3)
    /\ DKGFinalizedsCount(dkg) = 0
    /\ DKGSetSize(dkg) = 5
    /\ \E c \in Accounts :
           /\ NodesOffsetByNodeKeyAddress(state, c) >= 0
           /\ ~DKGMPKReady(dkg, c)
    /\ ~MPKAccepted(dkg)

\* C12 as stated: for every DKG set size N the thresholds of
\* addDKGComplaint, addDKGMasterPublicKey and resetDKG are floor(2 * N / 3).
C12_ThresholdIsFloor ==
    /\ complaintThreshold(dkg) = (2 * DKGSetSize(dkg)) \div 3
    /\ mpkThreshold(dkg) = (2 * DKGSetSize(dkg)) \div 3
    /\ resetThreshold(dkg) = (2 * DKGSetSize(dkg)) \div 3

\* C12 amended: for every DKG set size N the three thresholds are
\* 2 * floor(N / 3): floor(2 * N / 3) when N mod 3 is 0 or 1, and one less
\* when N mod 3 is 2.
C12_ThresholdIsTwoF ==
    LET N == DKGSetSize(dkg)
        T == IF N % 3 = 2 THEN ((2 * N) \div 3) - 1 ELSE (2 * N) \div 3
    IN  /\ complaintThreshold(dkg) = T
        /\ mpkThreshold(dkg) = T
        /\ resetThreshold(dkg) = T

C12_Witness == DKGSetSize(dkg) = 5 /\ complaintThreshold(dkg) = 2

(***************************************************************************)
(* The gas of a call.  A handler charges nothing before it returns: it     *)
(* returns errExecutionReverted as it is, or through penalize(), or the    *)
(* result of useGas on its fee.  What it returns is modelled as            *)
(* [err, gas]: the error and contract.Gas after the return.                *)
(***************************************************************************)
GasLimits == 0..MaxGas

\* contract.UseGas takes gas off contract.Gas unless less is left.
useGas(gasLeft, gas) ==
    IF gasLeft < gas THEN [err |-> "ErrOutOfGas", gas |-> gasLeft]
    ELSE [err |-> "nil", gas |-> gasLeft - gas]

penalizeKeepGas(gasLeft) ==
    [err |-> "errExecutionReverted", gas |-> gasLeft]

penalize(gasLeft) ==
    [err |-> "errExecutionReverted", gas |-> useGas(gasLeft, gasLeft).gas]

\* what a handler with the outcome out and the fee gas returns to Run when
\* it was entered with gasLeft.
Returns(out, gasLeft, gas) ==
    IF out = "penalized" THEN penalize(gasLeft)
    ELSE IF out = "reverted" THEN [err |-> "errExecutionReverted", gas |-> gasLeft]
    ELSE useGas(gasLeft, gas)

\* the outcomes of the DKG calls a caller can send in the current state.
DKGOutcomes ==
    {addDKGMasterPublicKey(state, dkg, c, round, m).out :
         c \in Accounts, round \in Rounds, m \in Messages}
    \cup {addDKGMPKReady(state, dkg, c, round, m).out :
              c \in Accounts, round \in Rounds, m \in Messages}
    \cup {addDKGFinalize(state, dkg, c, round, m).out :
              c \in Accounts, round \in Rounds, m \in Messages}
    \cup {addDKGComplaint(state, dkg, c, round, comp).out :
              c \in Accounts, round \in Rounds, comp \in Complaints}

AfterPendingClear ==
    IF DKGRound(dkg) = EvmRound THEN SetDKGRound(clearDKG(dkg), EvmRound + 1) ELSE dkg

\* a master public key that is refused for what it holds: it does not
\* decode, its proposer is not in the DKG set, or its signature fails.
BadMasterPublicKey(mpk) ==
    \/ ~Decodes(mpk)
    \/ ~inDKGSet(AfterPendingClear, EvmRound + 1, mpk.ProposerID)
    \/ ~SignatureVerified(mpk)

\* C33, as stated: addDKGMasterPublicKey for the next round is rejected
\* when the caller is no registered node; it is penalized when the caller
\* is marked ready, when the ready count exceeds the threshold, or when the
\* key is bad; only otherwise the key is appended.
C33_MPKPenalizedPastThreshold ==
    \A c \in Accounts, mpk \in Messages :
        LET r == addDKGMasterPublicKey(state, dkg, c, EvmRound + 1, mpk)
            d1 == AfterPendingClear
        IN  r.out = (IF NodesOffsetByNodeKeyAddress(state, c) < 0 THEN "reverted"
                     ELSE IF \/ DKGMPKReady(d1, c)
                             \/ DKGMPKReadysCount(d1) > mpkThreshold(d1)
                             \/ BadMasterPublicKey(mpk) THEN "penalized"
                     ELSE "ok")

\* C33, amended: addDKGMasterPublicKey for the next round is rejected when
\* the caller is no registered node; otherwise penalized when the caller is
\* marked ready; otherwise rejected, not penalized, when the ready count
\* exceeds the threshold; otherwise penalized when the key is bad; only
\* otherwise the key is appended, and a refused call leaves the DKG state
\* as it was.
C33_MPKOutcomes ==
    \A c \in Accounts, mpk \in Messages :
        LET r == addDKGMasterPublicKey(state, dkg, c, EvmRound + 1, mpk)
            d1 == AfterPendingClear
        IN  /\ r.out = (IF NodesOffsetByNodeKeyAddress(state, c) < 0 THEN "reverted"
                        ELSE IF DKGMPKReady(d1, c) THEN "penalized"
                        ELSE IF DKGMPKReadysCount(d1) > mpkThreshold(d1) THEN "reverted"
                        ELSE IF BadMasterPublicKey(mpk) THEN "penalized"
                        ELSE "ok")
            /\ r.out = "ok" =>
                   DKGMasterPublicKeys(r.dkg) = Append(DKGMasterPublicKeys(d1), mpk)
            /\ r.out # "ok" => r.dkg = dkg /\ r.st = state

\* C33, witness: the ready count is past the threshold with keys stored;
\* a registered caller that is not ready sends a good key and a bad one,
\* and both are rejected, while a ready caller is penalized.
C33_Witness ==
    /\ DKGRound(dkg) # EvmRound
    /\ DKGMPKReadysCount(dkg) > mpkThreshold(dkg)
    /\ DKGMasterPublicKeys(dkg) # <<>>
    /\ \E c \in Addrs :
           /\ ~DKGMPKReady(dkg, c)
           /\ addDKGMasterPublicKey(state, dkg, c, EvmRound + 1,
                                    Payload("good", 1, 0)).out = "reverted"
           /\ addDKGMasterPublicKey(state, dkg, c, EvmRound + 1,
                                    Payload("undecodable", 1, 0)).out = "reverted"
    /\ \E c \in Addrs :
           /\ DKGMPKReady(dkg, c)
           /\ addDKGMasterPublicKey(state, dkg, c, EvmRound + 1,
                                    Payload("good", 1, 0)).out = "penalized"

(***************************************************************************)
(* The configuration in round 0: the owner updates the DKG set size and    *)
(* the lockup period and hands the ownership over, while callers mark      *)
(* themselves ready and finalized; an account that is no node has          *)
(* delegated to node 1 and undelegated at time 1.                          *)
(***************************************************************************)
MaxLockupPeriod == 2
LockupPeriods == 1..MaxLockupPeriod
\* the owners the ownership is handed to.
NewOwners == {1, 2}

\* the registry of the genesis block after the delegation and the
\* undelegation of the outsider.
ConfigRegistry ==
    undelegate(delegate(GenesisRegistry, Outsider, 1, 1).st, Outsider, 1, 1).st

InitConfig ==
    /\ state = ConfigRegistry
    /\ balance = 1
    /\ now = 1
    /\ calls = 0
    /\ last = NoCall
    /\ dkg = GenesisDKG
    /\ HostIdle(GenesisRegistry)
    /\ BytesIdle

ConfigMPKReady ==
    \E c \in Accounts :
        CallDKG(addDKGMPKReady(state, dkg, c, EvmRound + 1, Payload("good", c, 0)))

ConfigFinalize ==
    \E c \in Accounts :
        CallDKG(addDKGFinalize(state, dkg, c, EvmRound + 1, Payload("good", c, 0)))

ConfigUpdate ==
    \E c \in Accounts, size \in DKGSetSizes, lockup \in LockupPeriods :
        CallDKG(updateConfiguration(state, dkg, c,
                    [RawConfig(state, dkg) EXCEPT !.DKGSetSize = size,
                                                  !.LockupPeriod = lockup]))

TransferOwnership ==
    \E c \in Accounts, newOwner \in NewOwners :
        CallDKG(transferOwnership(state, dkg, c, newOwner))

NextConfig ==
    \/ ConfigMPKReady
    \/ ConfigFinalize
    \/ ConfigUpdate
    \/ TransferOwnership

SpecConfig == InitConfig /\ [][NextConfig]_vars

\* the storage with the configuration of the snapshot of the round in
\* place of the live one.
SnapshotDKG ==
    [dkg EXCEPT !.dkgSetSize = DKGSetSize(getConfigState(EvmRound).dkg)]
SnapshotState ==
    [state EXCEPT !.lockupPeriod = LockupPeriod(getConfigState(EvmRound).st)]

\* C25: in every state of a round, whatever updateConfiguration has written
\* during the round, the thresholds of addDKGComplaint,
\* addDKGMasterPublicKey, proposeCRS and resetDKG are those of the DKG set
\* size of the round's configuration snapshot, the outcomes of
\* addDKGComplaint and addDKGMasterPublicKey are those the snapshot gives,
\* and the outcome of withdraw at every block time is the one the lockup
\* period of the snapshot gives.
C25_SnapshotConfiguration ==
    /\ complaintThreshold(dkg) = complaintThreshold(SnapshotDKG)
    /\ mpkThreshold(dkg) = mpkThreshold(SnapshotDKG)
    /\ proposeCRSThreshold(dkg) = proposeCRSThreshold(SnapshotDKG)
    /\ resetThreshold(dkg) = resetThreshold(SnapshotDKG)
    /\ \A c \in Accounts, comp \in Complaints :
           addDKGComplaint(state, dkg, c, EvmRound + 1, comp).out
               = addDKGComplaint(state, SnapshotDKG, c, EvmRound + 1, comp).out
    /\ \A c \in Accounts, mpk \in Messages :
           addDKGMasterPublicKey(state, dkg, c, EvmRound + 1, mpk).out
               = addDKGMasterPublicKey(state, SnapshotDKG, c, EvmRound + 1, mpk).out
    /\ \A c \in Accounts, n \in Addrs, t \in 0..MaxTime :
           withdraw(state, balance, c, n, t).out
               = withdraw(SnapshotState, balance, c, n, t).out

(***************************************************************************)
(* The DKG over several rounds: the host mines blocks and starts rounds of *)
(* RoundLength blocks, recording the height and the state each round       *)
(* starts at; the callers send valid payloads for the next round.          *)
(***************************************************************************)
GoodMessage == Payload("good", 1, 1)
GoodComplaint == Payload("nofine", 1, 1)
BadSignature == <<2>>
\* the callers of addDKGMPKReady and addDKGFinalize: a node of the DKG set
\* and an account that is no node.
RoundsCallers == {1, Outsider}

InitRounds ==
    /\ state = GenesisRegistry
    /\ balance = 0
    /\ now = 1
    /\ calls = 0
    /\ last = NoCall
    /\ dkg = GenesisDKG
    /\ HostIdle(GenesisRegistry)
    /\ BytesIdle

\* the history after a call that took the storage from d to d2: an item
\* pushed or a flag set is tagged with the round of the call; cleared tells
\* that the call has run clearDKG, readyBy and finalizedBy name the caller
\* of an accepted addDKGMPKReady or addDKGFinalize (0 for none).
HistAfter(d, d2, cleared, readyBy, finalizedBy) ==
    LET oldMpks == IF cleared THEN <<>> ELSE hist.mpks
        oldComplaints == IF cleared THEN <<>> ELSE hist.complaints
    IN  [mpks |-> IF Len(DKGMasterPublicKeys(d2)) > Len(oldMpks)
                  THEN Append(oldMpks, EvmRound) ELSE oldMpks,
         complaints |-> IF Len(DKGComplaints(d2)) > Len(oldComplaints)
                        THEN Append(oldComplaints, EvmRound) ELSE oldComplaints,
         ready |-> [a \in AllAddrs |->
                       IF ~DKGMPKReady(d2, a) THEN -1
                       ELSE IF DKGMPKReady(d, a) THEN hist.ready[a] ELSE EvmRound],
         finalized |-> [a \in AllAddrs |->
                           IF ~DKGFinalized(d2, a) THEN -1
                           ELSE IF DKGFinalized(d, a) THEN hist.finalized[a]
                           ELSE EvmRound],
         readySince |-> (IF cleared THEN {} ELSE hist.readySince)
                            \cup (IF readyBy = 0 THEN {} ELSE {readyBy}),
         finalizedSince |-> (IF cleared THEN {} ELSE hist.finalizedSince)
                                \cup (IF finalizedBy = 0 THEN {} ELSE {finalizedBy}),
         fined |-> hist.fined]

CallRounds(r, cleared, readyBy, finalizedBy) ==
    /\ r.out = "ok"
    /\ Len(DKGMasterPublicKeys(r.dkg)) <= MaxRoundItems
    /\ Len(DKGComplaints(r.dkg)) <= MaxRoundItems
    /\ DKGResetCount(r.dkg, EvmRound + 1) <= MaxResets
    /\ state' = r.st
    /\ dkg' = r.dkg
    /\ hist' = HistAfter(dkg, r.dkg, cleared, readyBy, finalizedBy)
    /\ UNCHANGED <<balance, now, calls, last, store, held, got, evm>>

RoundsMasterPublicKey ==
    \E c \in Accounts :
        CallRounds(addDKGMasterPublicKey(state, dkg, c, EvmRound + 1, GoodMessage),
                   DKGRound(dkg) = EvmRound, 0, 0)

RoundsMPKReady ==
    \E c \in RoundsCallers :
        CallRounds(addDKGMPKReady(state, dkg, c, EvmRound + 1, GoodMessage),
                   FALSE, c, 0)

RoundsFinalize ==
    \E c \in RoundsCallers :
        CallRounds(addDKGFinalize(state, dkg, c, EvmRound + 1, GoodMessage),
                   FALSE, 0, c)

RoundsComplaint ==
    \E c \in Accounts :
        CallRounds(addDKGComplaint(state, dkg, c, EvmRound + 1, GoodComplaint),
                   FALSE, 0, 0)

\* the signatures a proposer can send: over the stored CRS, over the hash
\* proposeCRS verifies, and one that verifies over nothing.
RoundsProposeCRS ==
    \E nextRound \in Rounds, gpk \in GPKOutcomes,
       signedCRS \in {Sign(CRS(dkg)), Sign(proposeCRSPrev(dkg)), BadSignature} :
        CallRounds(proposeCRS(state, dkg, nextRound, signedCRS, gpk), FALSE, 0, 0)

RoundsResetDKG ==
    \E gpkNext \in GPKOutcomes, gpkRound \in GPKOutcomes,
       newSignedCRS \in {Sign(resetDKGPrev(dkg)), BadSignature} :
        CallRounds(resetDKG(state, dkg, newSignedCRS, gpkNext, gpkRound), TRUE, 0, 0)

\* the length of the round the host is in: the one of the configuration of
\* the round.
HostRoundLength == RoundLength(getConfigState(EvmRound).dkg)

\* the host mines a block inside the round.
Mine ==
    /\ evm.BlockNumber + 1 < RoundHeight(dkg, EvmRound) + HostRoundLength
    /\ evm' = [evm EXCEPT !.BlockNumber = @ + 1]
    /\ UNCHANGED <<state, balance, now, calls, last, store, held, got, dkg, hist>>

\* the host mines the first block of the next round: it pushes the height
\* of the round and commits the state the round starts at.
NextRoundTo(maxRound) ==
    LET height == evm.BlockNumber + 1
        d1 == PushRoundHeight(dkg, height)
    IN  /\ EvmRound < maxRound
        /\ height = RoundHeight(dkg, EvmRound) + HostRoundLength
        /\ dkg' = d1
        /\ evm' = [Round |-> EvmRound + 1, BlockNumber |-> height,
                   chain |-> evm.chain @@ (height :> Committed(state, d1))]
        /\ UNCHANGED <<state, balance, now, calls, last, store, held, got, hist>>

NextRound == NextRoundTo(MaxRound)

NextRounds ==
    \/ RoundsMasterPublicKey
    \/ RoundsMPKReady
    \/ RoundsFinalize
    \/ RoundsComplaint
    \/ RoundsProposeCRS
    \/ RoundsResetDKG
    \/ Mine
    \/ NextRound

SpecRounds == InitRounds /\ [][NextRounds]_vars

\* the proposals a caller can send in the current state.
ProposalRounds == 0..(MaxRound + 2)
ProposalSignatures == {Sign(CRS(dkg)), Sign(HashTimes(CRS(dkg), 1)), BadSignature}

\* C15: proposeCRS is accepted only for nextRound = evm.Round + 1 with
\* CRSRound # nextRound; an accepted call sets CRSRound to nextRound; a
\* repeat for the same nextRound is rejected and leaves CRS and CRSRound as
\* they are; and no step decreases CRSRound.
C15_ProposeCRSOnce ==
    /\ [](\A nextRound \in ProposalRounds, gpk \in GPKOutcomes,
             signedCRS \in ProposalSignatures :
              LET r == proposeCRS(state, dkg, nextRound, signedCRS, gpk)
              IN  r.out = "ok" =>
                      /\ nextRound = EvmRound + 1
                      /\ CRSRound(dkg) # nextRound
                      /\ CRSRound(r.dkg) = nextRound
                      /\ \A gpk2 \in GPKOutcomes,
                            again \in ProposalSignatures \cup
                                {Sign(CRS(r.dkg)), Sign(HashTimes(CRS(r.dkg), 1))} :
                             LET r2 == proposeCRS(r.st, r.dkg, nextRound, again, gpk2)
                             IN  /\ r2.out # "ok"
                                 /\ CRS(r2.dkg) = CRS(r.dkg)
                                 /\ CRSRound(r2.dkg) = CRSRound(r.dkg))
    /\ [][CRSRound(dkg') >= CRSRound(dkg)]_vars

\* a proposal for round 1 has been accepted in round 0.
C15_Witness ==
    /\ EvmRound = 0
    /\ CRSRound(dkg) = 1
    /\ CRS(dkg) = Keccak256Hash(Sign(Keccak256Hash(GenesisCRSText)))

\* C16: for a proposal with nextRound = evm.Round + 1 that is not proposed
\* yet: when the group public key is not built the call is reverted; when
\* it is built and the signature does not verify over the previous CRS (the
\* stored CRS, hashed DKGDelayRound times in round DKGDelayRound) the call
\* is penalized; when it verifies the call succeeds, CRS is the hash of
\* signedCRS and CRSRound is nextRound.  A failed call writes nothing.
C16_ProposeCRSOutcomes ==
    \A gpk \in GPKOutcomes, signedCRS \in ProposalSignatures :
        LET nextRound == EvmRound + 1
            prevCRS == IF EvmRound = DKGDelayRound
                       THEN HashTimes(CRS(dkg), DKGDelayRound) ELSE CRS(dkg)
            r == proposeCRS(state, dkg, nextRound, signedCRS, gpk)
        IN  CRSRound(dkg) # nextRound =>
                IF gpk # "ok" THEN r.out = "reverted" /\ r.dkg = dkg
                ELSE IF signedCRS # Sign(prevCRS)
                     THEN r.out = "penalized" /\ r.dkg = dkg
                ELSE /\ r.out = "ok"
                     /\ CRS(r.dkg) = Keccak256Hash(signedCRS)
                     /\ CRSRound(r.dkg) = nextRound

\* a proposal for round DKGDelayRound + 1, signed over the hashed CRS, has
\* been accepted in round DKGDelayRound.
C16_Witness ==
    /\ EvmRound = DKGDelayRound
    /\ CRSRound(dkg) = EvmRound + 1
    /\ DKGResetCount(dkg, EvmRound + 1) = 0
    /\ CRS(dkg) = Keccak256Hash(Sign(HashTimes(CRS(getRoundState(EvmRound).dkg),
                                                DKGDelayRound)))

\* no complaint stored, both counters zero, no address marked.
NothingMarked(d) ==
    /\ DKGComplaints(d) = <<>>
    /\ DKGMPKReadysCount(d) = 0
    /\ DKGFinalizedsCount(d) = 0
    /\ \A a \in AllAddrs : ~DKGMPKReady(d, a) /\ ~DKGFinalized(d, a)

\* C18: a call that clears the DKG state leaves none of it: after the
\* first accepted master public key of a round the list holds that key
\* alone, after an accepted resetDKG it is empty, and in both cases no
\* complaint is stored, both counters are 0 and no address at all is marked
\* ready or finalized.
C18_ClearResetsAll ==
    /\ DKGRound(dkg) = EvmRound =>
           \A c \in Accounts :
               LET r == addDKGMasterPublicKey(state, dkg, c, EvmRound + 1, GoodMessage)
               IN  r.out = "ok" =>
                       /\ DKGMasterPublicKeys(r.dkg) = <<GoodMessage>>
                       /\ NothingMarked(r.dkg)
    /\ \A gpkNext \in GPKOutcomes, gpkRound \in GPKOutcomes :
           LET r == resetDKG(state, dkg, Sign(resetDKGPrev(dkg)), gpkNext, gpkRound)
           IN  r.out = "ok" =>
                   /\ DKGMasterPublicKeys(r.dkg) = <<>>
                   /\ NothingMarked(r.dkg)

\* every stored item and every set flag of history h is tagged round.
OnlyFromRound(h, round) ==
    /\ \A i \in 1..Len(h.mpks) : h.mpks[i] = round
    /\ \A i \in 1..Len(h.complaints) : h.complaints[i] = round
    /\ \A a \in AllAddrs : h.ready[a] \in {-1, round}
    /\ \A a \in AllAddrs : h.finalized[a] \in {-1, round}

\* C17: after every accepted addDKGMasterPublicKey in round r, whatever the
\* rounds before have seen, DKGRound is r + 1 and the stored master public
\* keys, the stored complaints and the ready and finalized flags are all
\* from calls accepted during round r.
C17_OnlyCurrentRoundItems ==
    \A c \in Accounts :
        LET r == addDKGMasterPublicKey(state, dkg, c, EvmRound + 1, GoodMessage)
            h == HistAfter(dkg, r.dkg, DKGRound(dkg) = EvmRound, 0, 0)
        IN  r.out = "ok" =>
                /\ DKGRound(r.dkg) = EvmRound + 1
                /\ OnlyFromRound(h, EvmRound)

\* the step is an accepted call that runs clearDKG.
ClearingStep ==
    \/ /\ DKGRound(dkg) = EvmRound
       /\ \E c \in Accounts :
              LET r == addDKGMasterPublicKey(state, dkg, c, EvmRound + 1, GoodMessage)
              IN  r.out = "ok" /\ dkg' = r.dkg
    \/ \E gpkNext \in GPKOutcomes, gpkRound \in GPKOutcomes :
           LET r == resetDKG(state, dkg, Sign(resetDKGPrev(dkg)), gpkNext, gpkRound)
           IN  r.out = "ok" /\ dkg' = r.dkg

\* C19: between two clears of the DKG state, a valid addDKGMPKReady or
\* addDKGFinalize succeeds; the first one from an address sets its flag and
\* adds exactly 1 to the counter, every further one changes nothing; and a
\* counter decreases only in a step that clears the DKG state.
C19_OneShotPerCaller ==
    /\ [](\A c \in Accounts :
              LET ready == addDKGMPKReady(state, dkg, c, EvmRound + 1, GoodMessage)
                  final == addDKGFinalize(state, dkg, c, EvmRound + 1, GoodMessage)
              IN  inDKGSet(dkg, EvmRound + 1, GoodMessage.ProposerID) =>
                      /\ ready.out = "ok"
                      /\ final.out = "ok"
                      /\ IF c \in hist.readySince
                         THEN ready.dkg = dkg
                         ELSE /\ DKGMPKReady(ready.dkg, c)
                              /\ DKGMPKReadysCount(ready.dkg) = DKGMPKReadysCount(dkg) + 1
                      /\ IF c \in hist.finalizedSince
                         THEN final.dkg = dkg
                         ELSE /\ DKGFinalized(final.dkg, c)
                              /\ DKGFinalizedsCount(final.dkg) = DKGFinalizedsCount(dkg) + 1)
    /\ [][(\/ DKGMPKReadysCount(dkg') < DKGMPKReadysCount(dkg)
            \/ DKGFinalizedsCount(dkg') < DKGFinalizedsCount(dkg)) => ClearingStep]_vars

\* the members of the DKG set whose signed MPK-ready and finalize messages
\* are sent under SpecRounds: every message is the one of proposer 1.
RoundsProposers == {GoodMessage.ProposerID}

\* C37: the ready and the finalized counters never exceed the number of
\* DKG-set members whose signed message was sent, however many callers sent
\* it, and no caller outside the DKG set of the next round is marked ready
\* or finalized in the current round.
C37_CountsBoundedByMembers ==
    /\ DKGMPKReadysCount(dkg) <= Cardinality(RoundsProposers)
    /\ DKGFinalizedsCount(dkg) <= Cardinality(RoundsProposers)
    /\ \A a \in AllAddrs :
           /\ (DKGMPKReady(dkg, a) /\ hist.ready[a] = EvmRound) =>
                  NodesOffsetByNodeKeyAddress(state, a) >= 0
           /\ (DKGFinalized(dkg, a) /\ hist.finalized[a] = EvmRound) =>
                  NodesOffsetByNodeKeyAddress(state, a) >= 0

\* C37, what holds instead: the counters count callers: since the last
\* clear, each is the number of distinct callers whose call was accepted.
C37_CountsCallers ==
    /\ DKGMPKReadysCount(dkg) <= Cardinality(hist.readySince)
    /\ DKGFinalizedsCount(dkg) <= Cardinality(hist.finalizedSince)

(***************************************************************************)
(* The snapshots of the rounds: the host mines blocks and starts rounds,   *)
(* committing the state each round starts at, while the owner changes the  *)
(* DKG set size and the minimum stake and the CRS of the next round is     *)
(* proposed.                                                               *)
(***************************************************************************)
SnapshotSizes == {2, GenesisDKGSetSize}
SnapshotMinStakes == {GenesisMinStake, GenesisMinStake + 1}

SnapshotUpdate ==
    \E size \in SnapshotSizes, minStake \in SnapshotMinStakes :
        CallDKG(updateConfiguration(state, dkg, Owner(dkg),
                    [RawConfig(state, dkg) EXCEPT !.DKGSetSize = size,
                                                  !.MinStake = minStake]))

SnapshotProposeCRS ==
    CallDKG(proposeCRS(state, dkg, EvmRound + 1, Sign(proposeCRSPrev(dkg)), "ok"))

NextSnapshots ==
    \/ SnapshotUpdate
    \/ SnapshotProposeCRS
    \/ Mine
    \/ NextRoundTo(MaxSnapshotRound)

SpecSnapshots == InitRounds /\ [][NextSnapshots]_vars

\* the rounds a handler can ask the state of.
SnapshotRounds == 0..(MaxSnapshotRound + ConfigRoundShift)

\* the height at which the host committed the start of the round: the
\* heights of the chain in their order; started tells that it has one.
RoundStarted(round) == round < Cardinality(DOMAIN evm.chain)
StartHeight(round) ==
    CHOOSE h \in DOMAIN evm.chain :
        Cardinality({g \in DOMAIN evm.chain : g < h}) = round

\* the configuration round of a round: max(0, round - ConfigRoundShift).
ConfigRound(round) ==
    IF round - ConfigRoundShift > 0 THEN round - ConfigRoundShift ELSE 0

\* C26: for every round R whose configuration round max(0, R -
\* ConfigRoundShift) has started, getConfigState(R) resolves to the state
\* committed at the height of that round, round 0 for R <= ConfigRoundShift
\* and round R - ConfigRoundShift above it; the DKG set of R, when the
\* handler can compute one, is the subset of DKG-set-size members of the
\* qualified nodes of that snapshot.
C26_ConfigStateShift ==
    \A R \in SnapshotRounds :
        RoundStarted(ConfigRound(R)) =>
            LET snapshot == evm.chain[StartHeight(ConfigRound(R))]
                gs == getConfigState(R)
            IN  /\ R <= ConfigRoundShift => snapshot = evm.chain[0]
                /\ gs.ok
                /\ gs.st = snapshot.st
                /\ gs.dkg = snapshot.dkg
                /\ configDKGSetSize(R) = DKGSetSize(snapshot.dkg)
                /\ getDKGSet(dkg, R) \in
                       {{}, GetSubSet(QualifiedNodes(snapshot.st, snapshot.dkg),
                                      DKGSetSize(snapshot.dkg))}

\* C26, witness: in round 2 the DKG set of round 3 is computed from the
\* snapshot of round 1, whose DKG set size is neither the one of the
\* genesis nor the one of round 2 nor the live one.
C26_Witness ==
    /\ EvmRound = 2
    /\ getDKGSet(dkg, 3) = {1, 2}
    /\ DKGSetSize(evm.chain[0].dkg) = GenesisDKGSetSize
    /\ DKGSetSize(evm.chain[StartHeight(2)].dkg) = GenesisDKGSetSize
    /\ DKGSetSize(dkg) = GenesisDKGSetSize

\* C27 as stated: for every round at or below ConfigRoundShift,
\* getRoundState resolves to the genesis state, also after the round has
\* started at a height above 0.
C27_LowRoundsAreGenesis ==
    \A round \in 0..ConfigRoundShift :
        /\ getRoundState(round).ok
        /\ getRoundState(round).st = evm.chain[0].st
        /\ getRoundState(round).dkg = evm.chain[0].dkg

\* C27: getRoundState(round) fails exactly when round is above
\* ConfigRoundShift and no height is recorded for it; for a round whose
\* height is recorded, at or below ConfigRoundShift or above it, it resolves
\* to the state committed at that height; for a round at or below
\* ConfigRoundShift with no height recorded it resolves to the genesis state.
C27_RoundStateResolves ==
    \A round \in SnapshotRounds :
        LET r == getRoundState(round)
        IN  /\ ~r.ok <=> (round > ConfigRoundShift /\ ~RoundStarted(round))
            /\ RoundStarted(round) =>
                   /\ r.st = evm.chain[StartHeight(round)].st
                   /\ r.dkg = evm.chain[StartHeight(round)].dkg
            /\ (round <= ConfigRoundShift /\ ~RoundStarted(round)) =>
                   /\ r.st = evm.chain[0].st
                   /\ r.dkg = evm.chain[0].dkg

\* C27, witness: round 3, above ConfigRoundShift, has started and resolves,
\* round 4 has not and fails, and round 1 resolves to a state with another
\* configuration than the genesis.
C27_Witness ==
    /\ EvmRound = 3
    /\ getRoundState(3).ok
    /\ ~getRoundState(4).ok
    /\ DKGSetSize(getRoundState(1).dkg) # DKGSetSize(evm.chain[0].dkg)

(***************************************************************************)
(* The reset of a DKG: the host mines blocks and starts rounds, the CRS of *)
(* the next round is proposed, callers finalize, the owner changes the     *)
(* round length, and the DKG of the next round is reset.                   *)
(***************************************************************************)
RoundLengths == {GenesisRoundLength, GenesisRoundLength + 1}
ResetSignatures == {Sign(resetDKGPrev(dkg)), BadSignature}

ResetUpdate ==
    \E roundLength \in RoundLengths :
        CallDKG(updateConfiguration(state, dkg, Owner(dkg),
                    [RawConfig(state, dkg) EXCEPT !.RoundLength = roundLength]))

ResetFinalize ==
    \E c \in Accounts :
        CallDKG(addDKGFinalize(state, dkg, c, EvmRound + 1, GoodMessage))

ResetDKG ==
    \E gpkNext \in GPKOutcomes, gpkRound \in GPKOutcomes,
       newSignedCRS \in ResetSignatures :
        LET r == resetDKG(state, dkg, newSignedCRS, gpkNext, gpkRound)
        IN  /\ DKGResetCount(r.dkg, EvmRound + 1) <= MaxResets
            /\ CallDKG(r)

NextReset ==
    \/ ResetUpdate
    \/ ResetFinalize
    \/ SnapshotProposeCRS
    \/ ResetDKG
    \/ Mine
    \/ NextRoundTo(MaxSnapshotRound)

SpecReset == InitRounds /\ [][NextReset]_vars

\* the round length of the configuration snapshot of the current round.
SnapshotRoundLength ==
    RoundLength(evm.chain[StartHeight(ConfigRound(EvmRound))].dkg)

\* the least block height at which the claim lets the round be reset.
ResetHeight ==
    RoundHeight(dkg, EvmRound)
        + (SnapshotRoundLength * (80 + 100 * DKGResetCount(dkg, EvmRound))) \div 100

\* C29: in every state of a round r, while the block height is below
\* RoundHeight(r) + floor(roundLength * (80 + 100 * DKGResetCount(r)) / 100),
\* roundLength the one of the configuration snapshot of r, every resetDKG,
\* whatever its signature and the answers of the key construction, is
\* reverted.
C29_ResetTooEarly ==
    evm.BlockNumber < ResetHeight =>
        \A gpkNext \in GPKOutcomes, gpkRound \in GPKOutcomes,
           newSignedCRS \in ResetSignatures :
            resetDKG(state, dkg, newSignedCRS, gpkNext, gpkRound).out = "reverted"

\* C29, witness: the DKG of the current round was reset once, the block
\* height is past 80% and below 180% of the round, the stored round length
\* is not the one of the snapshot, and a reset that is otherwise in order is
\* reverted.
C29_Witness ==
    /\ EvmRound > 0
    /\ DKGResetCount(dkg, EvmRound) = 1
    /\ evm.BlockNumber >= RoundHeight(dkg, EvmRound) + (SnapshotRoundLength * 80) \div 100
    /\ evm.BlockNumber < ResetHeight
    /\ RoundLength(dkg) # SnapshotRoundLength
    /\ resetDKG(state, dkg, Sign(resetDKGPrev(dkg)), "ErrNotReachThreshold", "ok").out
           = "reverted"

\* the inputs of a resetDKG: the answers of the two group public key
\* constructions and the signature.
ResetInputs == GPKOutcomes \X GPKOutcomes \X ResetSignatures

ResetOf(in) == resetDKG(state, dkg, in[3], in[1], in[2])

\* the block height lets the current round be reset.
ResetOpen ==
    /\ EvmRound > 0
    /\ getConfigState(EvmRound).ok
    /\ evm.BlockNumber >= resetDKGTarget(dkg)

\* C30, as stated: a resetDKG is accepted only if more than T callers have
\* finalized and the construction of the group public key of the next round
\* fails with the not-reach-threshold or the invalid-threshold condition.
C30_ResetOnlyAfterFinalize ==
    \A in \in ResetInputs :
        ResetOf(in).out = "ok" =>
            /\ DKGFinalizedsCount(dkg) > resetThreshold(dkg)
            /\ in[1] \in {"ErrNotReachThreshold", "ErrInvalidThreshold"}

\* C30, amended: once the height lets the round be reset, a resetDKG is
\* reverted with the DKG and CRS state unchanged when more than T callers
\* have finalized and the key of the next round is built or fails with
\* another error; in every other case, the one of at most T finalized
\* callers included, the key of the next round is not looked at: the call
\* is reverted when the key of the current round cannot be built, penalized
\* when the signature is not one of that key over the previous CRS, and
\* accepted otherwise, the DKG and the CRS moving to the next round.
C30_ResetOutcomes ==
    ResetOpen =>
        \A in \in ResetInputs :
            LET r == ResetOf(in)
                succeeded ==
                    /\ DKGFinalizedsCount(dkg) > resetThreshold(dkg)
                    /\ in[1] \notin {"ErrNotReachThreshold", "ErrInvalidThreshold"}
            IN  /\ r.out # "ok" => r.dkg = dkg /\ r.st = state
                /\ r.out = (IF succeeded \/ in[2] # "ok" THEN "reverted"
                            ELSE IF in[3] # Sign(resetDKGPrev(dkg)) THEN "penalized"
                            ELSE "ok")
                /\ r.out = "ok" =>
                       /\ r.dkg.dkgRound = EvmRound + 1
                       /\ r.dkg.crsRound = EvmRound + 1
                       /\ r.dkg.crs = Keccak256Hash(in[3])
                       /\ DKGFinalizedsCount(r.dkg) = 0
                       /\ DKGResetCount(r.dkg, EvmRound + 1)
                              = DKGResetCount(dkg, EvmRound + 1) + 1

\* C30, witness: more than T callers have finalized and the round can be
\* reset: the reset is reverted when the key of the next round is built and
\* accepted when its construction does not reach the threshold.
C30_Witness ==
    /\ ResetOpen
    /\ DKGFinalizedsCount(dkg) > resetThreshold(dkg)
    /\ ResetOf(<<"ok", "ok", Sign(resetDKGPrev(dkg))>>).out = "reverted"
    /\ ResetOf(<<"ErrNotReachThreshold", "ok", Sign(resetDKGPrev(dkg))>>).out = "ok"

\* what an accepted resetDKG of the current round moves: DKGRound, CRSRound,
\* the CRS and the reset counters.
ResetAdvances(in) ==
    LET r == ResetOf(in)
    IN  /\ DKGRound(r.dkg) = EvmRound + 1
        /\ CRSRound(r.dkg) = EvmRound + 1
        /\ CRS(r.dkg) = Keccak256Hash(in[3])
        /\ DKGResetCount(r.dkg, EvmRound + 1) = DKGResetCount(dkg, EvmRound + 1) + 1
        /\ DKGResetCount(r.dkg, EvmRound) = DKGResetCount(dkg, EvmRound)
        /\ resetDKGTarget(r.dkg) = resetDKGTarget(dkg)

\* C31: an accepted resetDKG in round r leaves no DKG state (no master
\* public key, no complaint, both counters 0, no address marked ready or
\* finalized), sets DKGRound and CRSRound to r+1 and the CRS to the hash of
\* the new signed CRS, adds exactly 1 to DKGResetCount(r+1) and leaves
\* DKGResetCount(r), and with it the height a further resetDKG of round r
\* waits for, as they were.
C31_ResetEffects ==
    \A in \in ResetInputs :
        ResetOf(in).out = "ok" =>
            /\ DKGMasterPublicKeys(ResetOf(in).dkg) = <<>>
            /\ NothingMarked(ResetOf(in).dkg)
            /\ ResetAdvances(in)

\* C31, the part that holds: the same with the flags of the members of the
\* DKG set of the current round and the counters for "no address marked".
C31_ResetEffectsOfMembers ==
    \A in \in ResetInputs :
        LET r == ResetOf(in)
        IN  r.out = "ok" =>
                /\ DKGMasterPublicKeys(r.dkg) = <<>>
                /\ DKGComplaints(r.dkg) = <<>>
                /\ DKGMPKReadysCount(r.dkg) = 0
                /\ DKGFinalizedsCount(r.dkg) = 0
                /\ \A a \in getDKGSet(dkg, EvmRound) :
                       ~DKGMPKReady(r.dkg, a) /\ ~DKGFinalized(r.dkg, a)
                /\ ResetAdvances(in)

(***************************************************************************)
(* The fine ledger: any account reports any two artifacts under any report *)
(* type; the history counts the accepted fines of each pair of payloads.   *)
(***************************************************************************)
MaxContent == 3
\* the artifacts of the proposers 1 and 2, and bytes that do not decode.
Artifacts == {<<p, c>> : p \in {1, 2}, c \in 1..MaxContent} \cup {<<>>}
ReportTypes == {ReportTypeInvalidDKG, ReportTypeForkVote, ReportTypeForkBlock}

InitFine ==
    /\ state = GenesisRegistry
    /\ balance = 0
    /\ now = 1
    /\ calls = 0
    /\ last = NoCall
    /\ dkg = GenesisDKG
    /\ HostIdle(GenesisRegistry)
    /\ BytesIdle

\* One call of report: the host commits its writes when it succeeds.
ReportOf(reportType, arg1, arg2) ==
    LET r == report(state, dkg, reportType, arg1, arg2)
    IN  /\ r.out = "ok"
        /\ state' = r.st
        /\ dkg' = r.dkg
        /\ hist' = [hist EXCEPT !.fined =
                       IF <<arg1, arg2>> \in DOMAIN @
                       THEN [@ EXCEPT ![<<arg1, arg2>>] = @ + 1]
                       ELSE @ @@ (<<arg1, arg2>> :> 1)]
        /\ UNCHANGED <<balance, now, calls, last, store, held, got, evm>>

Report ==
    \E reportType \in ReportTypes, arg1 \in Artifacts, arg2 \in Artifacts :
        ReportOf(reportType, arg1, arg2)

NextFine == Report

SpecFine == InitFine /\ [][NextFine]_vars

\* the payloads of two accepted fines are the same evidence.
SameEvidence(p, q) == p = q \/ (p[1] = q[2] /\ p[2] = q[1])

\* the Fined of every node, as a function of the owner.
FinedOf(s) == [a \in Addrs |-> Node(s, NodesOffsetByAddress(s, a)).Fined]

MaxStakeCalls == 4
\* the forks that are reported: two pairs of artifacts of the proposer 1.
Forks == {<<(<<1, 1>>), (<<1, 2>>)>>, <<(<<1, 1>>), (<<1, 3>>)>>}

InitStake ==
    /\ state = GenesisState
    /\ balance = 0
    /\ now = 0
    /\ calls = 0
    /\ last = NoCall
    /\ dkg = GenesisDKG
    /\ HostIdle(GenesisState)
    /\ BytesIdle

ReportFork ==
    \E fork \in Forks : ReportOf(ReportTypeForkBlock, fork[1], fork[2])

NextStake ==
    \/ calls < MaxStakeCalls /\ StakeStep
    \/ calls < MaxStakeCalls /\ DelegateStep
    \/ calls < MaxStakeCalls /\ UndelegateStep
    \/ calls < MaxStakeCalls /\ WithdrawStep
    \/ calls < MaxStakeCalls /\ PayFineStep
    \/ ReportFork
    \/ Tick

SpecStake == InitStake /\ [][NextStake]_vars

\* the caller has a row in the delegator list of the node address.
HasRow(s, nodeAddr, caller) ==
    \E j \in Offsets :
        j < LenDelegators(s, nodeAddr) /\ Delegator(s, nodeAddr, j).Owner = caller

\* C21: in every state and for every caller c and node address n, undelegate
\* succeeds exactly when the node exists with Fined = 0 and c has a row with
\* UndelegatedAt = 0; when it succeeds the row's UndelegatedAt is the block
\* time, node.Staked and TotalStaked have each decreased by the row's Value,
\* and a second undelegate of the same delegation, at the same or any later
\* block time, is rejected.
C21_UndelegateOnce ==
    \A c \in Addrs, n \in Addrs :
        LET nodeOffset == NodesOffsetByAddress(state, n)
            offset == DelegatorsOffset(state, n, c)
            node == Node(state, nodeOffset)
            row == Delegator(state, n, offset)
            active == /\ nodeOffset >= 0
                      /\ node.Fined = 0
                      /\ offset >= 0
                      /\ row.UndelegatedAt = 0
            r == undelegate(state, c, n, now)
        IN  /\ (r.out = "ok") <=> active
            /\ active =>
                   /\ Delegator(r.st, n, offset).UndelegatedAt = now
                   /\ Node(r.st, nodeOffset).Staked = node.Staked - row.Value
                   /\ TotalStaked(r.st) = TotalStaked(state) - row.Value
                   /\ \A t \in now..MaxTime :
                          undelegate(r.st, c, n, t).out # "ok"

\* C22: in every state, for every caller c, node address n and attached
\* value v, delegate is rejected exactly when n has no node, v is 0 or c has
\* a row on n, whether the row is undelegated or not; otherwise node.Staked
\* and TotalStaked each increase by v, one row {c, v, UndelegatedAt = 0} is
\* appended, the reverse index of c is the offset of that row, and the other
\* rows are as they were.
C22_DelegateContract ==
    \A c \in Addrs, n \in Addrs, v \in Values :
        LET nodeOffset == NodesOffsetByAddress(state, n)
            node == Node(state, nodeOffset)
            length == LenDelegators(state, n)
            rejected == nodeOffset < 0 \/ v = 0 \/ HasRow(state, n, c)
            r == delegate(state, c, v, n)
        IN  /\ rejected <=> r.out # "ok"
            /\ ~rejected =>
                   /\ Node(r.st, nodeOffset).Staked = node.Staked + v
                   /\ TotalStaked(r.st) = TotalStaked(state) + v
                   /\ LenDelegators(r.st, n) = length + 1
                   /\ Delegator(r.st, n, length) =
                          [Owner |-> c, Value |-> v, UndelegatedAt |-> 0]
                   /\ DelegatorsOffset(r.st, n, c) = length
                   /\ \A j \in Offsets :
                          j < length =>
                              Delegator(r.st, n, j) = Delegator(state, n, j)

\* C22, witness: a delegate has succeeded on a node on which another
\* address has a row that is undelegated and not withdrawn, so that
\* address's delegate is rejected.
C22_Witness ==
    /\ last.op = "delegate"
    /\ \E c \in Addrs :
           /\ c # last.caller
           /\ DelegatorsOffset(state, last.node, c) >= 0
           /\ Delegator(state, last.node,
                        DelegatorsOffset(state, last.node, c)).UndelegatedAt # 0
           /\ delegate(state, c, 1, last.node).out = "reverted"

\* the text fields of a stake call exceed their bounds.
TextTooLong(name, email, location, url) ==
    name >= 32 \/ email >= 32 \/ location >= 32 \/ url >= 128

\* C23 as stated: a stake of a caller that already owns a node, with text
\* fields within their bounds, is penalized.
C23_StakePenalizesOwner ==
    \A c \in Addrs, v \in Values :
        NodesOffsetByAddress(state, c) >= 0 =>
            stake(state, c, v, c, 31, 31, 31, 127).out = "penalized"

\* C23: in every state and for every caller c, value v, public key and text
\* fields, stake is penalized when a text field is too long (name, email or
\* location of 32 bytes or more, url of 128 or more); otherwise it is
\* reverted when c already owns a node; otherwise it is penalized when the
\* public key does not unmarshal; otherwise it succeeds, appends a node of
\* c with Fined = 0 at the offset LenNodes, sets both reverse indices to
\* that offset, and leaves the node with Staked = v, TotalStaked increased
\* by v and, when v > 0, the one row {c, v, UndelegatedAt = 0}.
C23_StakeContract ==
    \A c \in Addrs, v \in Values :
        \A pk \in PublicKeys(c), text \in StakeTexts :
            LET name == text[1]
                email == text[2]
                location == text[3]
                url == text[4]
                r == stake(state, c, v, pk, name, email, location, url)
                offset == LenNodes(state)
                new == Node(r.st, offset)
                rows == LenDelegators(state, c)
            IN  IF TextTooLong(name, email, location, url)
                THEN r.out = "penalized"
                ELSE IF NodesOffsetByAddress(state, c) >= 0
                THEN r.out = "reverted"
                ELSE IF ~PublicKeyValid(pk)
                THEN r.out = "penalized"
                ELSE /\ r.out = "ok"
                     /\ LenNodes(r.st) = offset + 1
                     /\ new = [Owner |-> c, PublicKey |-> pk, Staked |-> v,
                               Fined |-> 0, Name |-> name, Email |-> email,
                               Location |-> location, Url |-> url]
                     /\ NodesOffsetByAddress(r.st, c) = offset
                     /\ NodesOffsetByNodeKeyAddress(
                            r.st, publicKeyToNodeKeyAddress(pk)) = offset
                     /\ TotalStaked(r.st) = TotalStaked(state) + v
                     /\ v = 0 => LenDelegators(r.st, c) = rows
                     /\ v > 0 =>
                            /\ LenDelegators(r.st, c) = rows + 1
                            /\ Delegator(r.st, c, rows) =
                                   [Owner |-> c, Value |-> v, UndelegatedAt |-> 0]
                            /\ DelegatorsOffset(r.st, c, c) = rows

\* C23, witness: a stake has succeeded, so its caller owns a node and a
\* second stake of that caller is reverted.
C23_Witness ==
    /\ last.op = "stake"
    /\ NodesOffsetByAddress(state, last.caller) >= 0
    /\ stake(state, last.caller, 1, last.caller, 31, 31, 31, 127).out = "reverted"
    /\ stake(state, last.caller, 1, last.caller, 31, 31, 31, 128).out = "penalized"

\* C24: in every state, for every caller c, node address n and attached
\* value v, payFine succeeds exactly when n has a node, c has a row on n,
\* the node's Fined is above 0 and v <= Fined; when it succeeds the node's
\* Fined has decreased by v and nothing else of the registry has changed:
\* node.Staked, TotalStaked, every delegator row and every other node are as
\* they were.  No Fined is ever negative.
C24_PayFineContract ==
    /\ \A j \in Offsets : Node(state, j).Fined >= 0
    /\ \A c \in Addrs, n \in Addrs, v \in Values :
           LET nodeOffset == NodesOffsetByAddress(state, n)
               node == Node(state, nodeOffset)
               accepted == /\ nodeOffset >= 0
                           /\ HasRow(state, n, c)
                           /\ node.Fined > 0
                           /\ v <= node.Fined
               r == payFine(state, c, v, n)
           IN  /\ accepted <=> r.out = "ok"
               /\ accepted =>
                      /\ Node(r.st, nodeOffset).Fined = node.Fined - v
                      /\ r.st = [state EXCEPT
                                    !.nodes[nodeOffset].Fined = node.Fined - v]

\* C24, witness: a fine of 2 has been paid in part by a payFine, and a
\* payment above the rest is rejected.
C24_Witness ==
    /\ last.op = "payFine"
    /\ Cardinality(dkg.finedRecords) = 2
    /\ Node(state, NodesOffsetByAddress(state, last.node)).Fined = 1
    /\ payFine(state, last.caller, 2, last.node).out = "reverted"

\* the sum of Value over the delegator rows of node address a, from row i.
RECURSIVE SumRows(_, _, _)
SumRows(s, a, i) ==
    IF i >= LenDelegators(s, a) THEN 0
    ELSE Delegator(s, a, i).Value + SumRows(s, a, i + 1)

\* the sum of Value over the delegator rows of the node addresses up to a.
RECURSIVE SumDelegated(_, _)
SumDelegated(s, a) ==
    IF a < 0 THEN 0 ELSE SumRows(s, a, 0) + SumDelegated(s, a - 1)

\* a withdraw of caller c from node address n that nothing but the funds
\* of the contract can stop: the node and the row exist and the lockup of
\* the undelegated row has passed.
WithdrawDue(c, n) ==
    LET offset == DelegatorsOffset(state, n, c)
        delegator == Delegator(state, n, offset)
    IN  /\ NodesOffsetByAddress(state, n) >= 0
        /\ offset >= 0
        /\ delegator.UndelegatedAt # 0
        /\ now > delegator.UndelegatedAt + LockupPeriod(state)

\* C39: the balance of the contract is at least the sum of Value over all
\* delegator rows, undelegated ones included, and every withdraw that is
\* due is paid: it does not fail for lack of funds.
C39_BalanceCoversRows ==
    /\ balance >= SumDelegated(state, NumAddrs + 1)
    /\ \A c \in Addrs, n \in Addrs :
           WithdrawDue(c, n) =>
               /\ CanTransfer(balance, Delegator(state, n, DelegatorsOffset(state, n, c)).Value)
               /\ withdraw(state, balance, c, n, now).out # "reverted"

\* C39, witness: a row with value is undelegated and due while another
\* row with value stays, and the withdraw of the due row is paid its
\* value.
C39_Witness ==
    \E c \in Addrs, n \in Addrs :
        LET row == Delegator(state, n, DelegatorsOffset(state, n, c))
            r == withdraw(state, balance, c, n, now)
        IN  /\ WithdrawDue(c, n)
            /\ row.Value > 0
            /\ SumDelegated(state, NumAddrs + 1) > row.Value
            /\ r.out = "ok"
            /\ r.paid = [to |-> c, amount |-> row.Value]

(***************************************************************************)
(* The registry when a caller stakes any public key, its own or the one of *)
(* another owner.                                                          *)
(***************************************************************************)
StakeAnyKey ==
    \E c \in Addrs, v \in Values, pk \in Addrs : Stake(c, v, pk, 31, 31, 31, 127)

NextNodeKeys ==
    \/ StakeAnyKey
    \/ UndelegateStep
    \/ WithdrawStep
    \/ Tick

SpecNodeKeys == Init /\ [][NextNodeKeys]_vars

LiveOffsets == 0..(LenNodes(state) - 1)

\* C38: no two live nodes share a node key address, and the node key
\* address of every live node resolves to the offset of that node.
C38_NodeKeysDistinct ==
    /\ \A i \in LiveOffsets, j \in LiveOffsets :
           i # j => publicKeyToNodeKeyAddress(Node(state, i).PublicKey)
                        # publicKeyToNodeKeyAddress(Node(state, j).PublicKey)
    /\ \A i \in LiveOffsets :
           NodesOffsetByNodeKeyAddress(
               state, publicKeyToNodeKeyAddress(Node(state, i).PublicKey)) = i

(***************************************************************************)
(* The master public keys of a round: nodes send keys of proposers 1 and   *)
(* 2, each proposer with two different keys (the third field of the        *)
(* payload stands for the key material), and callers send MPK-ready        *)
(* messages.                                                               *)
(***************************************************************************)
KeyProposers == {1, 2}
Keys == {Payload("good", p, k) : p \in KeyProposers, k \in {1, 2}}

KeysMasterPublicKey ==
    \E c \in Addrs, mpk \in Keys :
        LET r == addDKGMasterPublicKey(state, dkg, c, EvmRound + 1, mpk)
        IN  /\ r.out = "ok"
            /\ Len(DKGMasterPublicKeys(r.dkg)) <= MaxKeys
            /\ state' = r.st
            /\ dkg' = r.dkg
            /\ UNCHANGED <<balance, now, calls, last, store, held, got, evm, hist>>

KeysMPKReady ==
    \E c \in Accounts :
        CallDKG(addDKGMPKReady(state, dkg, c, EvmRound + 1, GoodMessage))

NextKeys == KeysMasterPublicKey \/ KeysMPKReady

SpecKeys == InitDKG /\ [][NextKeys]_vars

\* the place of the first stored key of a proposer.
FirstPlace(proposerID) ==
    CHOOSE i \in 1..Len(DKGMasterPublicKeys(dkg)) :
        /\ DKGMasterPublicKeys(dkg)[i].ProposerID = proposerID
        /\ \A j \in 1..(i - 1) : DKGMasterPublicKeys(dkg)[j].ProposerID # proposerID

StoredProposers ==
    {DKGMasterPublicKeys(dkg)[i].ProposerID : i \in 1..Len(DKGMasterPublicKeys(dkg))}

\* C36: UniqueDKGMasterPublicKeys returns one key per proposer that has a
\* stored key, the first that was stored for it, in the order of these
\* first keys; GetDKGMasterPublicKeyByProposerID returns the same key for
\* each such proposer and "not found" for every other.
C36_FirstKeyCounts ==
    LET mpks == DKGMasterPublicKeys(dkg)
        unique == UniqueDKGMasterPublicKeys(dkg)
    IN  /\ {unique[k].ProposerID : k \in 1..Len(unique)} = StoredProposers
        /\ Len(unique) = Cardinality(StoredProposers)
        /\ \A k \in 1..Len(unique) :
               /\ unique[k] = mpks[FirstPlace(unique[k].ProposerID)]
               /\ GetDKGMasterPublicKeyByProposerID(dkg, unique[k].ProposerID)
                      = [mpk |-> unique[k], err |-> "nil"]
               /\ \A l \in (k + 1)..Len(unique) :
                      FirstPlace(unique[k].ProposerID) < FirstPlace(unique[l].ProposerID)
        /\ \A p \in Accounts \ StoredProposers :
               GetDKGMasterPublicKeyByProposerID(dkg, p).err = "not found"

\* C36, witness: four keys are stored, the second proposer's first key
\* after the first proposer's, and each proposer has sent a second,
\* different key; two keys count.
C36_Witness ==
    LET mpks == DKGMasterPublicKeys(dkg)
    IN  /\ Len(mpks) = 4
        /\ mpks[1].ProposerID = 1 /\ mpks[2].ProposerID = 2
        /\ mpks[3].ProposerID = 2 /\ mpks[3] # mpks[2]
        /\ mpks[4].ProposerID = 1 /\ mpks[4] # mpks[1]
        /\ UniqueDKGMasterPublicKeys(dkg) = <<mpks[1], mpks[2]>>

(***************************************************************************)
(* Run, the read-only getters of the indexable collections: each returns   *)
(* [err, res].  nodes, delegators, fineValues and roundHeight pack what    *)
(* the accessor of the state reads at the index; dkgMasterPublicKeys and   *)
(* dkgComplaints read the list and compare the index with its length.      *)
(***************************************************************************)
Getters ==
    {"nodes", "delegators", "dkgMasterPublicKeys", "dkgComplaints",
     "fineValues", "roundHeight"}

Packed(res) == [err |-> "nil", res |-> res]
GetterReverted == [err |-> "errExecutionReverted", res |-> <<>>]

RunGetter(s, d, method, nodeAddr, index) ==
    CASE method = "nodes" -> Packed(Node(s, index))
      [] method = "delegators" -> Packed(Delegator(s, nodeAddr, index))
      [] method = "dkgMasterPublicKeys" ->
             IF index >= Len(DKGMasterPublicKeys(d)) THEN GetterReverted
             ELSE Packed(DKGMasterPublicKeys(d)[index + 1])
      [] method = "dkgComplaints" ->
             IF index >= Len(DKGComplaints(d)) THEN GetterReverted
             ELSE Packed(DKGComplaints(d)[index + 1])
      [] method = "fineValues" -> Packed(FineValue(d, index))
      [] method = "roundHeight" -> Packed(RoundHeight(d, index))

\* the length of the collection a getter reads.
GetterLength(s, d, method, nodeAddr) ==
    CASE method = "nodes" -> LenNodes(s)
      [] method = "delegators" -> LenDelegators(s, nodeAddr)
      [] method = "dkgMasterPublicKeys" -> Len(DKGMasterPublicKeys(d))
      [] method = "dkgComplaints" -> Len(DKGComplaints(d))
      [] method = "fineValues" -> Len(d.fineValues)
      [] method = "roundHeight" -> LenRoundHeight(d)

Indexes == 0..(NumAddrs + 1)

\* C35: every getter of an indexable collection fails when the index is at
\* or past the current length of the collection.
C35_GettersBounded ==
    \A method \in Getters, nodeAddr \in Addrs, index \in Indexes :
        index >= GetterLength(state, dkg, method, nodeAddr) =>
            RunGetter(state, dkg, method, nodeAddr, index).err # "nil"

\* C35, what holds: the getters of the two DKG lists fail exactly at and
\* past the length and return the stored item below it; the other four
\* never fail and answer a zero value at and past the length.
C35_ListGettersBounded ==
    \A method \in Getters, nodeAddr \in Addrs, index \in Indexes :
        LET r == RunGetter(state, dkg, method, nodeAddr, index)
            past == index >= GetterLength(state, dkg, method, nodeAddr)
        IN  IF method \in {"dkgMasterPublicKeys", "dkgComplaints"}
            THEN (r.err # "nil") <=> past
            ELSE /\ r.err = "nil"
                 /\ past => r.res = (CASE method = "nodes" -> ZeroNode
                                       [] method = "delegators" -> ZeroDelegator
                                       [] OTHER -> 0)

(***************************************************************************)
(* Complaints that fine, over the rounds: nodes send master public keys    *)
(* of proposer 1 for the next round, callers send complaints against its   *)
(* private share that need a penalty, callers finalize, the CRS of the     *)
(* next round is proposed and the host mines blocks and starts rounds.     *)
(***************************************************************************)
FineComplaints == {Payload("fine", p, 1) : p \in {1, 2}}

ComplaintMasterPublicKey ==
    \E c \in Addrs :
        CallDKG(addDKGMasterPublicKey(state, dkg, c, EvmRound + 1, GoodMessage))

ComplaintFine ==
    \E c \in Accounts, comp \in FineComplaints :
        CallDKG(addDKGComplaint(state, dkg, c, EvmRound + 1, comp))

NextComplaint ==
    \/ ComplaintMasterPublicKey
    \/ ComplaintFine
    \/ ResetFinalize
    \/ SnapshotProposeCRS
    \/ Mine
    \/ NextRoundTo(MaxRound)

SpecComplaint == InitRounds /\ [][NextComplaint]_vars

\* the record fine keeps of a complaint.
ComplaintRecord(comp) == fineHash(<<PayloadBytes(comp), <<>>>>)

\* an accepted complaint that needs a penalty adds FineValue(InvalidDKG) to
\* the Fined of the node of the accused proposer, and to no other, records
\* the fine and appends the complaint.
FinesAccused ==
    \A c \in Accounts, comp \in FineComplaints :
        LET r == addDKGComplaint(state, dkg, c, EvmRound + 1, comp)
            accused == Node(state, NodesOffsetByNodeKeyAddress(state, comp.ShareProposerID)).Owner
        IN  r.out = "ok" =>
                /\ FinedOf(r.st) = [FinedOf(state) EXCEPT
                                       ![accused] = @ + FineValue(dkg, ReportTypeInvalidDKG)]
                /\ FineRecords(r.dkg, ComplaintRecord(comp))
                /\ ~FineRecords(dkg, ComplaintRecord(comp))
                /\ DKGComplaints(r.dkg) = Append(DKGComplaints(dkg), comp)

\* C34, as stated: an accepted complaint that needs a penalty fines the
\* node of the accused proposer by FineValue(InvalidDKG) and is appended;
\* once it was accepted, the same complaint sent again, in the same or a
\* later round, is penalized and leaves the state as it is.
C34_ResubmissionPenalized ==
    /\ FinesAccused
    /\ \A c \in Accounts, comp \in FineComplaints :
           FineRecords(dkg, ComplaintRecord(comp)) =>
               LET r == addDKGComplaint(state, dkg, c, EvmRound + 1, comp)
               IN  r.out = "penalized" /\ r.st = state /\ r.dkg = dkg

\* C34, amended: an accepted complaint that needs a penalty fines the node
\* of the accused proposer by FineValue(InvalidDKG) and is appended; once
\* it was accepted, the same complaint sent again, by any caller in the
\* same or a later round, is never accepted and leaves the state as it is:
\* it is rejected when the caller is no registered node or, the caller not
\* being finalized, when the finalized count exceeds the threshold, and
\* penalized in every other case.
C34_ResubmissionRefused ==
    /\ FinesAccused
    /\ \A c \in Accounts, comp \in FineComplaints :
           FineRecords(dkg, ComplaintRecord(comp)) =>
               LET r == addDKGComplaint(state, dkg, c, EvmRound + 1, comp)
                   rejected ==
                       \/ NodesOffsetByNodeKeyAddress(state, c) < 0
                       \/ /\ ~DKGFinalized(dkg, c)
                          /\ DKGFinalizedsCount(dkg) > complaintThreshold(dkg)
               IN  /\ r.out = (IF rejected THEN "reverted" ELSE "penalized")
                   /\ r.st = state
                   /\ r.dkg = dkg

\* C34, witness: a complaint was accepted in an earlier round and fined
\* node 1; in the current round the master public key of proposer 1 is
\* stored again, the stored complaints are gone, and a registered node
\* that is not finalized sends the complaint again and is penalized.
C34_Witness ==
    /\ EvmRound > 0
    /\ DKGRound(dkg) = EvmRound + 1
    /\ DKGComplaints(dkg) = <<>>
    /\ GetDKGMasterPublicKeyByProposerID(dkg, 1).err = "nil"
    /\ \E comp \in FineComplaints :
           /\ FineRecords(dkg, ComplaintRecord(comp))
           /\ FinedOf(state)[1] = FineValue(dkg, ReportTypeInvalidDKG)
           /\ \E c \in Addrs :
                  /\ ~DKGFinalized(dkg, c)
                  /\ inDKGSet(dkg, EvmRound + 1, comp.ProposerID)
                  /\ addDKGComplaint(state, dkg, c, EvmRound + 1, comp).out = "penalized"

(***************************************************************************)
(* The owner and the configuration, under SpecConfig.                      *)
(***************************************************************************)
\* the owner and the configuration fields that are stored.
ConfigFields(s, d) == <<Owner(d), RawConfig(s, d), NextHalvingSupply(d)>>

\* the raw configurations a caller sends.
RawConfigs ==
    {[RawConfig(state, dkg) EXCEPT !.DKGSetSize = size, !.LockupPeriod = lockup] :
        size \in DKGSetSizes, lockup \in LockupPeriods}

\* C28: in every state, updateConfiguration and transferOwnership succeed
\* for the current owner and are reverted for every other caller, leaving
\* the owner and every configuration field as they are; and no other
\* method, whatever its caller and arguments and whether it succeeds or
\* not, leaves an owner or a configuration field different from before.
C28_OwnerOnly ==
    /\ \A c \in Accounts, cfg \in RawConfigs :
           LET r == updateConfiguration(state, dkg, c, cfg)
           IN  IF c = Owner(dkg)
               THEN r.out = "ok" /\ RawConfig(r.st, r.dkg) = cfg
               ELSE /\ r.out = "reverted"
                    /\ ConfigFields(r.st, r.dkg) = ConfigFields(state, dkg)
    /\ \A c \in Accounts, newOwner \in Accounts :
           LET r == transferOwnership(state, dkg, c, newOwner)
           IN  IF c = Owner(dkg)
               THEN r.out = "ok" /\ Owner(r.dkg) = newOwner
               ELSE /\ r.out = "reverted"
                    /\ ConfigFields(r.st, r.dkg) = ConfigFields(state, dkg)
    /\ \A c \in Accounts, round \in Rounds :
           /\ \A comp \in Complaints :
                  LET r == addDKGComplaint(state, dkg, c, round, comp)
                  IN  ConfigFields(r.st, r.dkg) = ConfigFields(state, dkg)
           /\ \A m \in Messages :
                  /\ LET r == addDKGMasterPublicKey(state, dkg, c, round, m)
                     IN  ConfigFields(r.st, r.dkg) = ConfigFields(state, dkg)
                  /\ LET r == addDKGMPKReady(state, dkg, c, round, m)
                     IN  ConfigFields(r.st, r.dkg) = ConfigFields(state, dkg)
                  /\ LET r == addDKGFinalize(state, dkg, c, round, m)
                     IN  ConfigFields(r.st, r.dkg) = ConfigFields(state, dkg)
    /\ \A round \in Rounds, gpk \in GPKOutcomes,
          signedCRS \in {Sign(proposeCRSPrev(dkg)), BadSignature} :
           /\ LET r == proposeCRS(state, dkg, round, signedCRS, gpk)
              IN  ConfigFields(r.st, r.dkg) = ConfigFields(state, dkg)
           /\ LET r == resetDKG(state, dkg, signedCRS, gpk, "ok")
              IN  ConfigFields(r.st, r.dkg) = ConfigFields(state, dkg)
    /\ \A reportType \in ReportTypes, arg1 \in Artifacts, arg2 \in Artifacts :
           LET r == report(state, dkg, reportType, arg1, arg2)
           IN  ConfigFields(r.st, r.dkg) = ConfigFields(state, dkg)
    /\ \A c \in Accounts, n \in Addrs, v \in Values :
           /\ LockupPeriod(delegate(state, c, v, n).st) = LockupPeriod(state)
           /\ LockupPeriod(payFine(state, c, v, n).st) = LockupPeriod(state)
           /\ LockupPeriod(stake(state, c, v, c, 31, 31, 31, 127).st)
                  = LockupPeriod(state)
           /\ \A t \in 0..MaxTime :
                  /\ LockupPeriod(undelegate(state, c, n, t).st) = LockupPeriod(state)
                  /\ LockupPeriod(withdraw(state, balance, c, n, t).st)
                         = LockupPeriod(state)
                  /\ LockupPeriod(unstake(state, c, t).st) = LockupPeriod(state)

\* C28, witness: the ownership has been handed to address 2, which has
\* changed the DKG set size and the lockup period; the former owner is now
\* rejected.
C28_Witness ==
    /\ Owner(dkg) = 2
    /\ DKGSetSize(dkg) # GenesisDKGSetSize
    /\ LockupPeriod(state) # GenesisLockupPeriod
    /\ \A cfg \in RawConfigs : updateConfiguration(state, dkg, 1, cfg).out = "reverted"
    /\ transferOwnership(state, dkg, 1, 1).out = "reverted"

(***************************************************************************)
(* The genesis block: the host calls Initialize once, on the zero storage, *)
(* with the configuration and the total supply of the genesis file.        *)
(***************************************************************************)
MaxSupply == 3
Supplies == 0..MaxSupply
GenesisTexts == {<<1>>, <<2>>}
GenesisConfigs ==
    {[GenesisConfig EXCEPT !.Owner = o, !.NextHalvingSupply = n,
                           !.GenesisCRSText = t] :
        o \in Accounts, n \in Supplies, t \in GenesisTexts}

InitGenesis ==
    /\ state = GenesisState
    /\ balance = 0
    /\ now = 1
    /\ calls = 0
    /\ last = NoCall
    /\ dkg = ZeroDKG
    /\ HostIdle(GenesisState)
    /\ BytesIdle

\* A panic ends the process: the storage stays as it was.
InitializeGenesis ==
    /\ last.op = "none"
    /\ \E config \in GenesisConfigs, totalSupply \in Supplies :
           LET r == Initialize(dkg, config, totalSupply)
           IN  /\ dkg' = r.st
               /\ last' = [op |-> "Initialize", config |-> config,
                           totalSupply |-> totalSupply, panic |-> r.panic]
    /\ UNCHANGED <<state, balance, now, calls, store, held, got, evm, hist>>

NextGenesis == InitializeGenesis

SpecGenesis == InitGenesis /\ [][NextGenesis]_vars

\* C14: Initialize panics and leaves the storage as it was whenever
\* nextHalvingSupply <= totalSupply; otherwise it returns, and afterwards the
\* CRS is the hash of the genesis text, roundHeight has the one entry 0,
\* TotalSupply is totalSupply, Owner is config.Owner and DKGRound is
\* DKGDelayRound.
C14_InitializeGuard ==
    last.op = "Initialize" =>
        IF last.config.NextHalvingSupply <= last.totalSupply
        THEN last.panic /\ dkg = ZeroDKG
        ELSE /\ ~last.panic
             /\ CRS(dkg) = Keccak256Hash(last.config.GenesisCRSText)
             /\ RoundHeight(dkg, 0) = 0
             /\ LenRoundHeight(dkg) = 1
             /\ TotalSupply(dkg) = last.totalSupply
             /\ Owner(dkg) = last.config.Owner
             /\ DKGRound(dkg) = DKGDelayRound

\* Initialize has returned on a genesis with a positive supply.
C14_Witness ==
    /\ last.op = "Initialize"
    /\ ~last.panic
    /\ last.totalSupply > 0
    /\ TotalSupply(dkg) = last.totalSupply

(***************************************************************************)
(* The byte-string layer as a state machine: one location is written,      *)
(* read and erased, in any order, so that a string is written over         *)
(* whatever an earlier, longer or shorter, string left behind.             *)
(***************************************************************************)
MaxLen == 65
MaxLead == 2
Lens == {0, 1, 2, 31, 32, 33, 64, MaxLen}
Seeds == {1, 200}
BytesLoc == <<0>>

\* a byte string of the given length: lead bytes 0x00, then bytes that vary
\* with their position.
Pattern(length, lead, seed) ==
    [i \in 1..length |-> IF i <= lead THEN 0 ELSE (seed + 7 * i) % 256]

BytesInputs ==
    {Pattern(n, l, s) : n \in Lens, l \in 0..MaxLead, s \in Seeds}

InitBytes ==
    /\ state = GenesisState
    /\ balance = 0
    /\ now = 1
    /\ calls = 0
    /\ last = [op |-> "none", len |-> 0]
    /\ dkg = GenesisDKG
    /\ HostIdle(GenesisState)
    /\ BytesIdle

WriteBytes ==
    \E data \in BytesInputs :
        /\ store' = writeBytes(store, BytesLoc, data)
        /\ held' = data
        /\ got' = NotRead
        /\ last' = [op |-> "writeBytes", len |-> Len(data)]
        /\ UNCHANGED regVars

ReadBytes ==
    /\ got' = readBytes(store, BytesLoc)
    /\ last' = [op |-> "readBytes", len |-> Len(held)]
    /\ UNCHANGED <<store, held, regVars>>

EraseBytes ==
    /\ store' = eraseBytes(store, BytesLoc)
    /\ held' = <<>>
    /\ got' = NotRead
    /\ last' = [op |-> "eraseBytes", len |-> Len(held)]
    /\ UNCHANGED regVars

NextBytes ==
    \/ WriteBytes
    \/ ReadBytes
    \/ EraseBytes

SpecBytes == InitBytes /\ [][NextBytes]_vars

\* C8: readBytes returns the byte string that the last writeBytes stored at
\* the location, whatever its length and content and whatever the location
\* held before.
C8_RoundTrip ==
    last.op = "readBytes" => got = [panic |-> FALSE, data |-> held]

\* C9: after eraseBytes the length slot and every data word the erased
\* string used are zero, and readBytes returns the empty string.
C9_EraseClears ==
    last.op = "eraseBytes" =>
        /\ getState(store, BytesLoc) = ZeroWord
        /\ last.len >= 32 =>
               \A i \in 0..(Chunks(last.len) - 1) :
                   getState(store, DataLoc(BytesLoc, i)) = ZeroWord
        /\ readBytes(store, BytesLoc) = [panic |-> FALSE, data |-> <<>>]

C9_Witness ==
    /\ last.op = "eraseBytes"
    /\ last.len = MaxLen
    /\ DataLoc(BytesLoc, Chunks(MaxLen) - 1) \in DOMAIN store

(***************************************************************************)
(* A 1-D array of byte strings as a state machine: elements are appended   *)
(* to one array, the array is read and erased, in any order; held is the   *)
(* sequence of the elements appended since the array was last empty.       *)
(***************************************************************************)
MaxElements == 2
ElementLens == {0, 1, 31, 32, 33}
ArrayLoc == <<1>>

Elements == {Pattern(n, l, 1) : n \in ElementLens, l \in 0..1}

Append1D ==
    \E data \in Elements :
        /\ Len(held) < MaxElements
        /\ store' = appendTo1DByteArray(store, ArrayLoc, data)
        /\ held' = Append(held, data)
        /\ got' = NotRead
        /\ last' = [op |-> "appendTo1DByteArray", len |-> Len(held) + 1]
        /\ UNCHANGED regVars

Read1D ==
    /\ got' = read1DByteArray(store, ArrayLoc)
    /\ last' = [op |-> "read1DByteArray", len |-> Len(held)]
    /\ UNCHANGED <<store, held, regVars>>

Erase1D ==
    /\ store' = erase1DByteArray(store, ArrayLoc)
    /\ held' = <<>>
    /\ got' = NotRead
    /\ last' = [op |-> "erase1DByteArray", len |-> Len(held)]
    /\ UNCHANGED regVars

NextArray ==
    \/ Append1D
    \/ Read1D
    \/ Erase1D

SpecArray == InitBytes /\ [][NextArray]_vars

\* C40: read1DByteArray returns the elements appended since the array was
\* empty, in order, whatever their lengths and whatever an erased array
\* left behind; after erase1DByteArray the length slot, the length slot of
\* every element and every data word are zero.
C40_ArrayRoundTrip ==
    /\ last.op = "read1DByteArray" => got = [panic |-> FALSE, data |-> held]
    /\ last.op = "erase1DByteArray" =>
           /\ getState(store, ArrayLoc) = ZeroWord
           /\ \A loc \in DOMAIN store : store[loc] = ZeroWord

\* an element readBytes returns as it was written: not a string of fewer
\* than 32 bytes that starts with a zero byte.
ReadsBack(data) == Len(data) >= 32 \/ data = <<>> \/ data[1] # 0

\* C40, what holds: the same for arrays of elements that readBytes returns
\* as they were written; the erase leaves zeros whatever the elements.
C40_ArrayRoundTripOfReadable ==
    /\ (last.op = "read1DByteArray" /\ \A i \in 1..Len(held) : ReadsBack(held[i])) =>
           got = [panic |-> FALSE, data |-> held]
    /\ last.op = "erase1DByteArray" =>
           /\ getState(store, ArrayLoc) = ZeroWord
           /\ \A loc \in DOMAIN store : store[loc] = ZeroWord
           /\ read1DByteArray(store, ArrayLoc) = [panic |-> FALSE, data |-> <<>>]

====
